---- MODULE Spec2Model ----
(***************************************************************************)
(* Model of the rendering core of the Raspberry Pi weather dashboard:      *)
(* the icon resolver (get_weather_icon, WeatherDisplay.load_icon), the     *)
(* curve smoother (bezier_curve, both copies) and the value-to-pixel       *)
(* mapping of the chart renderer (prepare_template_data,                   *)
(* draw_graph_section).                                                    *)
(*                                                                         *)
(* Python str values that the code inspects character by character         *)
(* (endswith, slicing) are sequences of one-character strings; asset names *)
(* the code only returns are TLA+ strings.  Python floats are modelled by  *)
(* exact rationals (numerator over a positive denominator) and int() by    *)
(* truncation toward zero.                                                 *)
(***************************************************************************)
EXTENDS Integers, Sequences, FiniteSets, TLC

VARIABLES
    op,            \* "input" before the call, then the name of the operation that returned
    icon_name,     \* load_icon / get_weather_icon argument: the icon code
    wind_speed,    \* argument wind_speed
    force_day,     \* load_icon argument force_day
    mapped_icon,   \* return value of get_weather_icon
    icon_path,     \* asset name load_icon resolved (the X of icons/X.png)
    asset,         \* state of the icon files on disk: "ok", "missing", "unreadable"
    size,          \* load_icon argument size
    icon_image,    \* image load_icon returned
    points,        \* bezier_curve argument: control points
    num_segments,  \* segment count bezier_curve ran with
    result,        \* return value of bezier_curve
    hourly,        \* weather_data['forecast']['hourly'] handed to update_display
    current_temp,  \* weather_data['current']['temperature']
    hourly_data,   \* data['hourly_data'] built by prepare_template_data
    temp_min,      \* data['temp_min']
    temp_max,      \* data['temp_max']
    temp_range,    \* temp_range local of draw_graph_section
    temp_points,   \* 'points' local of draw_graph_section (temperature series)
    rain_points,   \* 'rain_points' local of draw_graph_section
    chart_drawn,   \* draw_graph_section ran past its early return to the end
    layer_points,  \* layer_points of every temperature-fill layer, in order
    forecast,      \* weather_data['forecast']['daily'] handed to update_display
    width,         \* self.width, the canvas width taken from the display
    canvas,        \* drawing steps applied to img, in order
    cards,         \* forecast cards drawn by draw_forecast, in order
    raised,        \* exception raised inside the operation ("none" if none)
    sink_image,    \* canvas last handed to display.set_image (<<>> if none yet)
    shown,         \* display.show() returned for sink_image
    pc,            \* where main is: "main", "initial_update", "scheduler", "exited",
                   \* and with --test: "test", "run_once", "done"
    pending,       \* jobs schedule.run_pending found due and has not run yet
    in_progress,   \* update_weather calls that have started and not returned
    ticks,         \* passes of the scheduler loop so far
    fetch_outcome, \* what get_weather_data did in the current cycle
    fault,         \* step of update_display that raises in the current cycle
    update_count,  \* self.update_count
    escaped,       \* exception that left update_weather ("none" if none)
    delivered,     \* display.set_image returned in the last cycle
    panel,         \* image the panel shows: the last one show() returned for
    last_good,     \* canvas of the most recent render that ended without exception
    scheduled,     \* cycles asked for so far: the initial one and every due job
    completed,     \* update_weather calls that have returned or raised
    caught,        \* cycles so far in which the fetcher or the renderer raised
    test_mode,     \* sys.argv[1] == '--test'
    fetches,       \* calls of get_weather_data so far
    display_calls, \* calls of update_display made by update_weather so far
    current_cycles,\* cycles so far whose fetch returned a current observation
    last_update,   \* self.last_update: 0 for None, else the number of the cycle
                   \* that set it (standing for its datetime.now())
    start_of_day,  \* time of day, in minutes, at which run_scheduler started
    next_interval, \* next_run of the interval job, in minutes since that start
    interval_runs, \* minutes since that start at which the interval job was due
    api_current,   \* response of the current-weather request
    api_forecast   \* response of the forecast request

iconVars  == <<icon_name, wind_speed, force_day, mapped_icon, icon_path,
               asset, size, icon_image>>
curveVars == <<points, num_segments, result>>
graphVars == <<hourly, current_temp, hourly_data, temp_min, temp_max,
               temp_range, temp_points, rain_points, chart_drawn, layer_points>>
renderVars == <<forecast, width, canvas, cards, raised, sink_image, shown>>
dashVars == <<pc, pending, in_progress, ticks, fetch_outcome, fault, update_count,
              escaped, delivered, panel, last_good, scheduled, completed, caught,
              test_mode, fetches, display_calls, current_cycles, last_update,
              start_of_day, next_interval, interval_runs, api_current, api_forecast>>
apiVars == <<api_current, api_forecast>>
vars == <<op, iconVars, curveVars, graphVars, renderVars, dashVars>>

----------------------------------------------------------------------------
(* Bounds of the model *)

MaxCodeLen == 3     \* icon codes are all strings of at most this many characters
MaxWind == 21       \* wind speeds 0..MaxWind (mph)
MaxPoints == 3      \* control points per bezier_curve call
MaxSegments == 3    \* explicit segment counts 0..MaxSegments
MaxHourly == 3      \* hourly forecast points handed to the renderer
MaxDaily == 8       \* daily forecast entries handed to the renderer
MaxItems == 9       \* items of a forecast response
MaxMinutes == 41    \* minutes run_scheduler is followed for, one loop pass each
MaxTicks == 2       \* passes of the scheduler loop

----------------------------------------------------------------------------
(* Python helpers *)

Min2(a, b) == IF a <= b THEN a ELSE b
Max2(a, b) == IF a >= b THEN a ELSE b

\* int(num/den) for den /= 0: truncation toward zero
PyInt(num, den) ==
    LET n == IF den < 0 THEN -num ELSE num
        d == IF den < 0 THEN -den ELSE den
    IN  IF n >= 0 THEN n \div d ELSE -((-n) \div d)

RECURSIVE SeqMin(_)
SeqMin(s) == IF Len(s) = 1 THEN s[1] ELSE Min2(s[1], SeqMin(Tail(s)))

RECURSIVE SeqMax(_)
SeqMax(s) == IF Len(s) = 1 THEN s[1] ELSE Max2(s[1], SeqMax(Tail(s)))

\* s.endswith(c) for a one-character suffix c
endswith(s, c) == Len(s) > 0 /\ s[Len(s)] = c

\* s[:k] for a str or a list s
Prefix(s, k) == SubSeq(s, 1, Min2(k, Len(s)))

----------------------------------------------------------------------------
(* Icon resolver *)

\* Characters the modelled icon codes are built from: the digits of the
\* OpenWeatherMap families, the day/night suffixes and two other letters.
Chars == {"0", "1", "2", "3", "4", "5", "9", "d", "n", "w", "i"}

RECURSIVE StringsOfLen(_)
StringsOfLen(k) ==
    IF k = 0 THEN {<<>>}
    ELSE {Append(s, c) : s \in StringsOfLen(k - 1), c \in Chars}

RECURSIVE StringsUpTo(_)
StringsUpTo(k) ==
    IF k = 0 THEN {<<>>} ELSE StringsOfLen(k) \cup StringsUpTo(k - 1)

ui_icons == { <<"s","u","n","r","i","s","e">>,
              <<"s","u","n","s","e","t">>,
              <<"w","i","n","d">>,
              <<"h","u","m","i","d","i","t","y">>,
              <<"v","i","s","i","b","i","l","i","t","y">>,
              <<"a","q","i">> }

\* Longer names that load_icon can be handed besides the short codes: the UI
\* icon names and the names one suffix change away from a UI icon name.
LongNames == ui_icons \cup { <<"w","i","n","n">>, <<"0","1","d","n">>,
                             <<"5","0","n","d">>, <<"1","0","n","n">> }

IconCodes == StringsUpTo(MaxCodeLen) \cup LongNames

WindSpeeds == 0..MaxWind

\* the text of a UI icon name, as it appears in f"icons/{icon_name}.png"
UiText(s) ==
    CASE s = <<"s","u","n","r","i","s","e">> -> "sunrise"
      [] s = <<"s","u","n","s","e","t">> -> "sunset"
      [] s = <<"w","i","n","d">> -> "wind"
      [] s = <<"h","u","m","i","d","i","t","y">> -> "humidity"
      [] s = <<"v","i","s","i","b","i","l","i","t","y">> -> "visibility"
      [] s = <<"a","q","i">> -> "aqi"

\* Variant: the scattered/broken-clouds branch forgets the night test.
DispatchIconCloudyAlwaysWindy(icon_code, wind) ==
    LET is_night == endswith(icon_code, "n")
        base_code == Prefix(icon_code, 2)
    IN  IF base_code = <<"0","1">> THEN
            IF is_night THEN "clear_night"
            ELSE IF wind >= 10 THEN "clear_windy" ELSE "clear_day"
        ELSE IF base_code = <<"0","2">> THEN
            IF is_night THEN "partly_cloudy_night" ELSE "partly_cloudy_day"
        ELSE IF base_code \in {<<"0","3">>, <<"0","4">>} THEN
            IF wind >= 10 THEN "cloudy_windy" ELSE "cloudy"
        ELSE IF base_code = <<"0","9">> THEN
            IF is_night THEN "drizzle_night" ELSE "drizzle_day"
        ELSE IF base_code = <<"1","0">> THEN
            IF is_night THEN "rain_night" ELSE "rain_day"
        ELSE IF base_code = <<"1","1">> THEN "thunderstorm"
        ELSE IF base_code = <<"1","3">> THEN
            IF is_night THEN "snow_night" ELSE "snow_day"
        ELSE IF base_code = <<"5","0">> THEN "mist"
        ELSE "cloudy"

\* The dispatch of get_weather_icon on the code, below the wind override.
DispatchIcon(icon_code, wind) ==
    LET is_night == endswith(icon_code, "n")
        base_code == Prefix(icon_code, 2)
    IN  IF base_code = <<"0","1">> THEN
            IF is_night THEN "clear_night"
            ELSE IF wind >= 10 THEN "clear_windy" ELSE "clear_day"
        ELSE IF base_code = <<"0","2">> THEN
            IF is_night THEN "partly_cloudy_night" ELSE "partly_cloudy_day"
        ELSE IF base_code \in {<<"0","3">>, <<"0","4">>} THEN
            IF ~is_night /\ wind >= 10 THEN "cloudy_windy" ELSE "cloudy"
        ELSE IF base_code = <<"0","9">> THEN
            IF is_night THEN "drizzle_night" ELSE "drizzle_day"
        ELSE IF base_code = <<"1","0">> THEN
            IF is_night THEN "rain_night" ELSE "rain_day"
        ELSE IF base_code = <<"1","1">> THEN "thunderstorm"
        ELSE IF base_code = <<"1","3">> THEN
            IF is_night THEN "snow_night" ELSE "snow_day"
        ELSE IF base_code = <<"5","0">> THEN "mist"
        ELSE "cloudy"

\* Variant: the wind override is tested after the night test of the code.
get_weather_icon_night_first(icon_code, wind) ==
    IF endswith(icon_code, "n") THEN DispatchIcon(icon_code, wind)
    ELSE IF wind >= 20 THEN "windy"
    ELSE DispatchIcon(icon_code, wind)

get_weather_icon(icon_code, wind) ==
    IF wind >= 20 THEN "windy"
    ELSE DispatchIcon(icon_code, wind)

\* The asset name load_icon resolves: lines 204-220, up to icon_path.
\* Variant: force_day is ignored, the code is mapped as given.
load_icon_no_conversion(name, wind, force) ==
    IF name \in ui_icons THEN UiText(name)
    ELSE get_weather_icon(name, wind)

load_icon(name, wind, force) ==
    IF name \in ui_icons THEN UiText(name)
    ELSE
      LET converted == IF force /\ endswith(name, "n")
                       THEN Append(SubSeq(name, 1, Len(name) - 1), "d")
                       ELSE name
      IN  get_weather_icon(converted, wind)

\* The icon files on disk: present and readable, absent, or present but
\* failing in Image.open or the processing after it.
AssetStates == {"ok", "missing", "unreadable"}

\* The sizes load_icon is called with (lines 329, 383, 603).
IconSizes == {38, 46, 152}

NoImage == [mode |-> "none", size |-> <<0, 0>>, pixels |-> "none"]

\* Image.new('RGBA', (size, size), (255, 255, 255, 0))
Placeholder(sz) == [mode |-> "RGBA", size |-> <<sz, sz>>, pixels |-> "transparent"]

\* Variant: Image.open and the processing run outside the try block.
load_icon_image_open_unguarded(name, sz, wind, force, files) ==
    IF files = "missing" THEN [image |-> Placeholder(sz), raised |-> "none"]
    ELSE IF files = "unreadable" THEN [image |-> NoImage, raised |-> "Exception"]
    ELSE [image |-> [mode |-> "RGBA", size |-> <<sz, sz>>,
                     pixels |-> load_icon(name, wind, force)],
          raised |-> "none"]

\* load_icon from the resolved path on: the placeholder if the file does not
\* exist (line 222) or if opening or processing it raises (line 267), else
\* the asset converted to RGBA and resized to size x size.
load_icon_image(name, sz, wind, force, files) ==
    IF files = "missing" THEN [image |-> Placeholder(sz), raised |-> "none"]
    ELSE IF files = "unreadable" THEN [image |-> Placeholder(sz), raised |-> "none"]
    ELSE [image |-> [mode |-> "RGBA", size |-> <<sz, sz>>,
                     pixels |-> load_icon(name, wind, force)],
          raised |-> "none"]

CallGetWeatherIcon ==
    /\ op = "input"
    /\ op' = "get_weather_icon"
    /\ mapped_icon' = get_weather_icon(icon_name, wind_speed)
    /\ UNCHANGED <<dashVars, icon_name, wind_speed, force_day, icon_path, asset, size,
                   icon_image, curveVars, graphVars, renderVars>>

CallLoadIcon ==
    /\ op = "input"
    /\ \E f \in BOOLEAN, sz \in IconSizes :
        LET r == load_icon_image(icon_name, sz, wind_speed, f, asset)
        IN  /\ op' = "load_icon"
            /\ force_day' = f
            /\ size' = sz
            /\ icon_path' = load_icon(icon_name, wind_speed, f)
            /\ icon_image' = r.image
            /\ raised' = r.raised
    /\ UNCHANGED <<dashVars, icon_name, wind_speed, mapped_icon, asset, curveVars, graphVars,
                   forecast, width, canvas, cards, sink_image, shown>>

----------------------------------------------------------------------------
(* Curve smoother *)

\* One coordinate of the Catmull-Rom point at t = t_step/segs on the interval
\* whose four spline points have coordinates a0, a1, a2, a3, then int().
\* 0.5*(2*a1 + (-a0+a2)*t + (2*a0-5*a1+4*a2-a3)*t^2 + (-a0+3*a1-3*a2+a3)*t^3)
\* over the common denominator 2*segs^3.  At t = 0 the float expression is
\* exact; elsewhere the model takes the exact value where the float one is
\* rounded.
CatmullRom(a0, a1, a2, a3, t_step, segs) ==
    PyInt(  2 * a1 * segs * segs * segs
          + (-a0 + a2) * t_step * segs * segs
          + (2 * a0 - 5 * a1 + 4 * a2 - a3) * t_step * t_step * segs
          + (-a0 + 3 * a1 - 3 * a2 + a3) * t_step * t_step * t_step,
          2 * segs * segs * segs)

\* Variant: t = (t_step + 1) / num_segments.
SegmentPointsShifted(pts, i, segs) ==
    LET n  == Len(pts)
        p0 == pts[Max2(0, i - 1) + 1]
        p1 == pts[i + 1]
        p2 == pts[i + 2]
        p3 == pts[Min2(n - 1, i + 2) + 1]
    IN  [k \in 1..segs |->
            << CatmullRom(p0[1], p1[1], p2[1], p3[1], k, segs),
               CatmullRom(p0[2], p1[2], p2[2], p3[2], k, segs) >>]

\* The points appended by the inner loop for interval i (0-based).
SegmentPoints(pts, i, segs) ==
    LET n  == Len(pts)
        p0 == pts[Max2(0, i - 1) + 1]
        p1 == pts[i + 1]
        p2 == pts[i + 2]
        p3 == pts[Min2(n - 1, i + 2) + 1]
    IN  [k \in 1..segs |->
            << CatmullRom(p0[1], p1[1], p2[1], p3[1], k - 1, segs),
               CatmullRom(p0[2], p1[2], p2[2], p3[2], k - 1, segs) >>]

\* The outer loop: the intervals i, i+1, ..., len(points)-2 in order.
RECURSIVE SplineFrom(_, _, _)
SplineFrom(pts, i, segs) ==
    IF i > Len(pts) - 2 THEN <<>>
    ELSE SegmentPoints(pts, i, segs) \o SplineFrom(pts, i + 1, segs)

\* Variant: a short input yields an empty list.
bezier_curve_empty_if_short(pts, segs) ==
    IF Len(pts) < 2 THEN <<>>
    ELSE Append(SplineFrom(pts, 0, segs), pts[Len(pts)])

\* Variant: the last control point is not appended.
bezier_curve_no_append(pts, segs) ==
    IF Len(pts) < 2 THEN pts
    ELSE SplineFrom(pts, 0, segs)

bezier_curve(pts, segs) ==
    IF Len(pts) < 2 THEN pts
    ELSE Append(SplineFrom(pts, 0, segs), pts[Len(pts)])

\* num_segments=50: the default of weather_display_pil.bezier_curve
DefaultNumSegments == 50

\* Variant: the default is the screenshot copy's 20.
bezier_curve_default_20(pts) == bezier_curve(pts, 20)

bezier_curve_default(pts) == bezier_curve(pts, DefaultNumSegments)

\* segments=20: the default of create_screenshot.bezier_curve
ScreenshotDefaultSegments == 20

\* create_screenshot.bezier_curve, the second copy of the smoother
screenshot_bezier_curve(pts, segs) ==
    IF Len(pts) < 2 THEN pts
    ELSE Append(SplineFrom(pts, 0, segs), pts[Len(pts)])

screenshot_bezier_curve_default(pts) ==
    screenshot_bezier_curve(pts, ScreenshotDefaultSegments)

\* Pixel coordinates of the modelled control points.
PixelXs == {0, 13, 40}
PixelYs == {-7, 0, 40}
Pixels == PixelXs \X PixelYs

RECURSIVE SeqsOfLen(_, _)
SeqsOfLen(S, k) ==
    IF k = 0 THEN {<<>>}
    ELSE {Append(s, e) : s \in SeqsOfLen(S, k - 1), e \in S}

RECURSIVE SeqsUpTo(_, _)
SeqsUpTo(S, k) ==
    IF k = 0 THEN {<<>>} ELSE SeqsOfLen(S, k) \cup SeqsUpTo(S, k - 1)

\* bezier_curve(points, num_segments=S)
CallBezierCurve ==
    /\ op = "input"
    /\ \E S \in 0..MaxSegments :
        /\ op' = "bezier_curve"
        /\ num_segments' = S
        /\ result' = bezier_curve(points, S)
    /\ UNCHANGED <<dashVars, points, iconVars, graphVars, renderVars>>

\* bezier_curve(points) in weather_display_pil
CallBezierCurveDefault ==
    /\ op = "input"
    /\ op' = "bezier_curve_default"
    /\ num_segments' = DefaultNumSegments
    /\ result' = bezier_curve_default(points)
    /\ UNCHANGED <<dashVars, points, iconVars, graphVars, renderVars>>

\* bezier_curve(points) in create_screenshot
CallScreenshotBezierCurveDefault ==
    /\ op = "input"
    /\ op' = "screenshot_bezier_curve_default"
    /\ num_segments' = ScreenshotDefaultSegments
    /\ result' = screenshot_bezier_curve_default(points)
    /\ UNCHANGED <<dashVars, points, iconVars, graphVars, renderVars>>

----------------------------------------------------------------------------
(* Chart renderer: view model and value-to-pixel mapping *)

y_start == 245
graph_x == 85
graph_width == 590
graph_height == 80
graph_y == y_start + 12

\* forecast['hourly'][:8]
ChartPoints == 8

\* strftime('%I %p') of a time whose hour of the day is h: the hour on the
\* 12-hour clock as two digits, a space, AM or PM.
DigitChars == <<"0", "1", "2", "3", "4", "5", "6", "7", "8", "9">>
strftime_I_p(h) ==
    LET I == IF h % 12 = 0 THEN 12 ELSE h % 12
    IN  <<DigitChars[(I \div 10) + 1], DigitChars[(I % 10) + 1], " ">>
            \o (IF h < 12 THEN <<"A", "M">> ELSE <<"P", "M">>)

\* str.lstrip('0')
RECURSIVE lstrip0(_)
lstrip0(str) ==
    IF Len(str) > 0 /\ str[1] = "0" THEN lstrip0(Tail(str)) ELSE str

\* str.lower(), for the letters strftime('%I %p') produces
lower(str) ==
    [c \in 1..Len(str) |->
        IF str[c] = "A" THEN "a"
        ELSE IF str[c] = "P" THEN "p"
        ELSE IF str[c] = "M" THEN "m"
        ELSE str[c]]

NowLabel == <<"N", "o", "w">>

\* Variant: every point is labelled with its formatted time.
TimeLabelAlwaysTime(i, hour) == lower(lstrip0(strftime_I_p(hour)))

\* time_label of the point enumerate() numbers i
TimeLabel(i, hour) ==
    IF i = 0 THEN NowLabel ELSE lower(lstrip0(strftime_I_p(hour)))

\* prepare_template_data: the hourly points kept for the chart and the
\* temperature bounds.  A point keeps its temp and rain_chance and gets its
\* time label.
prepare_template_data(hourly_in, cur_temp) ==
    LET hd    == [i \in 1..Len(Prefix(hourly_in, ChartPoints)) |->
                     [time |-> TimeLabel(i - 1, hourly_in[i].time),
                      temp |-> hourly_in[i].temp,
                      rain_chance |-> hourly_in[i].rain_chance]]
        temps == IF Len(hd) > 0 THEN [i \in 1..Len(hd) |-> hd[i].temp]
                 ELSE <<cur_temp>>
    IN  [hourly_data |-> hd, temp_min |-> SeqMin(temps), temp_max |-> SeqMax(temps)]

\* temp_range = temp_max - temp_min if temp_max != temp_min else 1
\* Variant: the range is the plain difference of the bounds.
TempRangeUnguarded(tmax, tmin) == tmax - tmin

TempRange(tmax, tmin) == IF tmax /= tmin THEN tmax - tmin ELSE 1

\* int(px), px = graph_x + i * step, step = graph_width / (len(temps) - 1)
\* Variant: the step divides the width by the number of points.
PointXStepByCount(i, n) == PyInt(graph_x * n + i * graph_width, n)

PointX(i, n) == PyInt(graph_x * (n - 1) + i * graph_width, n - 1)

\* Variant: y is not inverted, py = graph_y + ((temp - temp_min) / temp_range) * graph_height.
TempYNotInverted(temp, tmin, tmax) ==
    LET trange == TempRange(tmax, tmin)
    IN  PyInt(graph_y * trange + (temp - tmin) * graph_height, trange)

\* Variant: floor division, (temp - temp_min) // temp_range.
TempYFloorDiv(temp, tmin, tmax) ==
    LET trange == TempRange(tmax, tmin)
    IN  graph_y + graph_height - ((temp - tmin) \div trange) * graph_height

\* Variant: a flat series is drawn at mid-band.
TempYCentred(temp, tmin, tmax) ==
    LET trange == TempRange(tmax, tmin)
    IN  IF tmax = tmin THEN graph_y + graph_height \div 2
        ELSE PyInt((graph_y + graph_height) * trange - (temp - tmin) * graph_height,
                   trange)

\* int(py), py = graph_y + graph_height - ((temp - temp_min) / temp_range) * graph_height
\* (temp_range > 0 whenever temp_min <= temp_max)
TempY(temp, tmin, tmax) ==
    LET trange == TempRange(tmax, tmin)
    IN  PyInt((graph_y + graph_height) * trange - (temp - tmin) * graph_height,
              trange)

\* int(py), py = graph_y + graph_height - (rain_pct / 100) * graph_height
RainY(rain_pct) ==
    PyInt((graph_y + graph_height) * 100 - rain_pct * graph_height, 100)

\* num_layers of the gradient fills and the segment count draw_graph_section
\* passes to bezier_curve
num_layers == 30
GraphSegments == 20

\* The divisors draw_graph_section evaluates once it is past its early return,
\* in order: temp_range (line 422, used on line 430), len(temps) - 1 under its len(temps) > 1
\* test (line 425, no division otherwise, written 1), 100 (line 479),
\* num_layers (lines 449-452, 494-497), num_segments (bezier_curve, line 106)
\* and the 2 of text_width // 2 (line 525).
GraphDivisors(hd, tmin, tmax) ==
    <<TempRange(tmax, tmin),
      IF Len(hd) > 1 THEN Len(hd) - 1 ELSE 1,
      100, num_layers, GraphSegments, 2>>

HasZero(divs) == \E k \in 1..Len(divs) : divs[k] = 0

\* The drawing steps of a chart, in the order of the code: the four axis
\* labels, the temperature fill and stroke, the precipitation fill and stroke,
\* the time labels.
\* Variant: each curve is stroked before its fill is composited.
GraphOpsStrokeFirst == <<"axis_labels", "temp_stroke", "temp_fill",
                         "rain_stroke", "rain_fill", "time_labels">>

GraphOps == <<"axis_labels", "temp_fill", "temp_stroke",
              "rain_fill", "rain_stroke", "time_labels">>

\* Variant: the early return is taken for an empty sequence only.
draw_graph_section_empty_only(hd, tmin, tmax) ==
    IF Len(hd) < 1
    THEN [drawn |-> FALSE, error |-> "none", ops |-> <<>>,
          temp_range |-> 1, points |-> <<>>, rain_points |-> <<>>]
    ELSE IF Len(hd) = 1
    THEN [drawn |-> TRUE, error |-> "none", ops |-> GraphOps,
          temp_range |-> TempRange(tmax, tmin),
          points |-> << <<graph_x, TempY(hd[1].temp, tmin, tmax)>> >>,
          rain_points |-> << <<graph_x, RainY(hd[1].rain_chance)>> >>]
    ELSE [drawn |-> TRUE, error |-> "none", ops |-> GraphOps,
          temp_range |-> TempRange(tmax, tmin),
          points |-> [i \in 1..Len(hd) |->
                        <<PointX(i - 1, Len(hd)), TempY(hd[i].temp, tmin, tmax)>>],
          rain_points |-> [i \in 1..Len(hd) |->
                        <<PointX(i - 1, Len(hd)), RainY(hd[i].rain_chance)>>]]

\* draw_graph_section: the early return leaves everything undrawn; a zero
\* divisor raises ZeroDivisionError after the axis labels; otherwise the
\* control points of the two series are computed and every step is drawn.
draw_graph_section(hd, tmin, tmax) ==
    IF Len(hd) < 2
    THEN [drawn |-> FALSE, error |-> "none", ops |-> <<>>,
          temp_range |-> 1, points |-> <<>>, rain_points |-> <<>>]
    ELSE IF HasZero(GraphDivisors(hd, tmin, tmax))
    THEN [drawn |-> FALSE, error |-> "ZeroDivisionError", ops |-> <<"axis_labels">>,
          temp_range |-> TempRange(tmax, tmin), points |-> <<>>, rain_points |-> <<>>]
    ELSE [drawn |-> TRUE, error |-> "none", ops |-> GraphOps,
          temp_range |-> TempRange(tmax, tmin),
          points |-> [i \in 1..Len(hd) |->
                        <<PointX(i - 1, Len(hd)), TempY(hd[i].temp, tmin, tmax)>>],
          rain_points |-> [i \in 1..Len(hd) |->
                        <<PointX(i - 1, Len(hd)), RainY(hd[i].rain_chance)>>]]

\* y_offset = int((graph_height * layer) / num_layers), layer in 0..29
LayerOffset(layer) == PyInt(graph_height * layer, num_layers)

\* layer_points of one layer: the smoothed curve moved down by the layer's
\* offset, then the two bottom-edge vertices.
LayerPoints(smooth, layer) ==
    [k \in 1..Len(smooth) |-> <<smooth[k][1], smooth[k][2] + LayerOffset(layer)>>]
        \o << <<smooth[Len(smooth)][1], graph_y + graph_height>>,
               <<smooth[1][1], graph_y + graph_height>> >>

\* The polygons of the temperature fill, one per layer, in drawing order.
TempFillLayers(pts) ==
    LET smooth == IF Len(pts) > 1 THEN bezier_curve(pts, GraphSegments) ELSE pts
    IN  IF Len(smooth) > 1
        THEN [l \in 1..num_layers |-> LayerPoints(smooth, l - 1)]
        ELSE <<>>

----------------------------------------------------------------------------
(* Panel renderer: forecast cards *)

\* forecast.get('daily', [])[:7]
TemplateDays == 7

\* forecast_data[0:6]
CardCapacity == 6

\* total_spacing = 58 * 2, the gap between cards, the x of the first card
total_spacing == 116
CardGap == 3
FirstCardX == 42

\* Variant: every card keeps its entry's day name.
CardLabelOwnName(i, day) == day.day_name

\* day_display['day_name'] of card i (0-based)
CardLabel(i, day) == IF i = 0 THEN "Today" ELSE day.day_name

\* Variant: the card width ignores the gaps between the cards.
CardWidthNoGaps(w, n) == (w - total_spacing) \div n

\* card_width = available_width // cards_per_row
CardWidth(w, n) == (w - total_spacing - CardGap * (n - 1)) \div n

\* Variant: all the entries are drawn.
CardEntriesAll(forecast_data) == forecast_data

\* daily_forecasts = forecast_data[0:6]
CardEntries(forecast_data) == Prefix(forecast_data, CardCapacity)

\* forecast_data as draw_forecast leaves it: the label goes into a copy of
\* the entry
EntriesAfterDraw(forecast_data) == forecast_data

\* icon_size of draw_forecast_card
CardIconSize == 46

\* Variant: the card icon is resolved with the entry's own wind speed.
CardIconPathOwnWind(icon_code, own_wind) == load_icon(icon_code, own_wind, TRUE)

\* The asset name draw_forecast_card resolves for an entry's icon code:
\* load_icon(icon_code, icon_size, wind_speed=0, force_day=True); the
\* entry's own wind speed is not looked at.
CardIconPath(icon_code, own_wind) == load_icon(icon_code, 0, TRUE)

\* draw_forecast_card for an entry whose icon code is icon_name and whose own
\* wind speed is wind_speed: the icon it loads.
CallDrawForecastCard ==
    /\ op = "input"
    /\ op' = "draw_forecast_card"
    /\ force_day' = TRUE
    /\ size' = CardIconSize
    /\ icon_path' = CardIconPath(icon_name, wind_speed)
    /\ \E r \in {load_icon_image(icon_name, CardIconSize, 0, TRUE, asset)} :
         /\ icon_image' = r.image
         /\ raised' = r.raised
    /\ UNCHANGED <<dashVars, icon_name, wind_speed, mapped_icon, asset, curveVars,
                   graphVars, forecast, width, canvas, cards, sink_image, shown>>

\* draw_forecast: nothing for an empty sequence, else one card per entry of
\* the first six, each with its x, width, label and icon; an exception out
\* of load_icon ends it at the first card.
draw_forecast(forecast_data, w, files) ==
    IF Len(forecast_data) = 0
    THEN [cards |-> <<>>, entries |-> forecast_data, error |-> "none"]
    ELSE LET daily_forecasts == CardEntries(forecast_data)
             cards_per_row == Len(daily_forecasts)
             card_width == CardWidth(w, cards_per_row)
             icon(k) == load_icon_image(daily_forecasts[k].icon, CardIconSize,
                                        0, TRUE, files)
         IN  IF \E k \in 1..cards_per_row : icon(k).raised /= "none"
             THEN [cards |-> <<>>, entries |-> EntriesAfterDraw(forecast_data),
                   error |-> "Exception"]
             ELSE [cards |-> [k \in 1..cards_per_row |->
                      [x |-> FirstCardX + (k - 1) * (card_width + CardGap),
                       width |-> card_width,
                       day_name |-> CardLabel(k - 1, daily_forecasts[k]),
                       icon |-> icon(k).image]],
                   entries |-> EntriesAfterDraw(forecast_data),
                   error |-> "none"]

----------------------------------------------------------------------------
(* update_display *)

\* The steps of update_display after the view model is built, in order.
RenderSteps == <<"background", "header", "current_weather", "details",
                 "graph", "forecast", "enhance", "save", "set_image", "show">>

\* Steps that can raise because of the drawing toolkit, the file system or
\* the display; "prepare" is prepare_template_data, "none" no failure.
RenderFaults == {"none", "prepare"} \cup {RenderSteps[k] : k \in 1..Len(RenderSteps)}

StepIndex(step) == CHOOSE k \in 1..Len(RenderSteps) : RenderSteps[k] = step

RECURSIVE CardOps(_)
CardOps(n) == IF n = 0 THEN <<>> ELSE Append(CardOps(n - 1), "card")

\* Sizes of the main icon (line 329) and of the detail icons (lines 383, 393)
MainIconSize == 152
DetailIconSize == 38

SetMin(S) == CHOOSE x \in S : \A y \in S : x <= y

\* Variant: the exception handler hands whatever was drawn to the display.
SetImageInHandler(failAt) == failAt /= 9

\* display.set_image(img) is reached and returns: no step up to it (step 9)
\* raised.  failAt is the index of the step that raises, 0 if none does.
SetImageReturned(failAt) == failAt = 0 \/ failAt > 9

\* update_display(weather_data) on a canvas of width w with the icon files in
\* state files, where step flt raises.  weather_data is [data, current,
\* temperature, icon, wind_speed, hourly, daily]: data is FALSE for None,
\* current is FALSE for a record without a current observation.
\* The result tells what was drawn, what was raised and caught, and whether
\* set_image and show returned.
update_display(wd, w, files, flt) ==
    LET nothing == [early |-> TRUE, hourly_data |-> <<>>, temp_min |-> 0,
                    temp_max |-> 0, temp_range |-> 1, points |-> <<>>,
                    rain_points |-> <<>>, chart_drawn |-> FALSE,
                    canvas |-> <<>>, cards |-> <<>>, entries |-> <<>>,
                    raised |-> "none", delivered |-> FALSE, shown |-> FALSE]
    IN
    IF ~wd.data THEN nothing
    ELSE IF ~wd.current THEN [nothing EXCEPT !.entries = wd.daily]
    ELSE IF flt = "prepare"
    THEN [nothing EXCEPT !.early = FALSE, !.raised = "Exception",
                         !.entries = wd.daily]
    ELSE
      LET data   == prepare_template_data(wd.hourly, wd.temperature)
          days   == Prefix(wd.daily, TemplateDays)
          chart  == draw_graph_section(data.hourly_data, data.temp_min, data.temp_max)
          row    == draw_forecast(days, w, files)
          main   == load_icon_image(wd.icon, MainIconSize, wd.wind_speed, FALSE, files)
          detail == load_icon_image(<<"s","u","n","r","i","s","e">>, DetailIconSize,
                                    0, FALSE, files)
          \* index of the first step that raises, 0 if none does
          envAt  == IF flt = "none" THEN 0 ELSE StepIndex(flt)
          raisers == (IF envAt /= 0 THEN {envAt} ELSE {})
                     \cup (IF main.raised /= "none" THEN {3} ELSE {})
                     \cup (IF detail.raised /= "none" THEN {4} ELSE {})
                     \cup (IF chart.error /= "none" THEN {5} ELSE {})
                     \cup (IF row.error /= "none" THEN {6} ELSE {})
          failAt == IF raisers = {} THEN 0 ELSE SetMin(raisers)
          done(k) == failAt = 0 \/ k < failAt
          graphOps == IF done(5) THEN chart.ops
                      ELSE IF failAt = 5 /\ envAt /= 5 THEN chart.ops
                      ELSE <<>>
      IN  [early |-> FALSE,
           hourly_data |-> data.hourly_data,
           temp_min |-> data.temp_min,
           temp_max |-> data.temp_max,
           temp_range |-> IF done(5) THEN chart.temp_range ELSE 1,
           points |-> IF done(5) THEN chart.points ELSE <<>>,
           rain_points |-> IF done(5) THEN chart.rain_points ELSE <<>>,
           chart_drawn |-> done(5) /\ chart.drawn,
           canvas |-> (IF done(1) THEN <<"background">> ELSE <<>>)
                      \o (IF done(2) THEN <<"header">> ELSE <<>>)
                      \o (IF done(3) THEN <<"current_weather">> ELSE <<>>)
                      \o (IF done(4) THEN <<"details">> ELSE <<>>)
                      \o graphOps
                      \o (IF done(6) THEN CardOps(Len(row.cards)) ELSE <<>>)
                      \o (IF done(7) THEN <<"enhance">> ELSE <<>>),
           cards |-> IF done(6) THEN row.cards ELSE <<>>,
           \* the slice shares its entries with the fetcher's sequence
           entries |-> IF done(6)
                       THEN row.entries \o SubSeq(wd.daily, Len(days) + 1, Len(wd.daily))
                       ELSE wd.daily,
           raised |-> IF failAt = 0 THEN "none"
                      ELSE IF failAt = 5 /\ envAt /= 5 THEN chart.error
                      ELSE "Exception",
           delivered |-> SetImageReturned(failAt),
           shown |-> done(10)]

\* The effect of one update_display call with result r on the renderer's
\* state and on the display.
ApplyRender(r) ==
    /\ hourly_data' = r.hourly_data
    /\ temp_min' = r.temp_min
    /\ temp_max' = r.temp_max
    /\ temp_range' = r.temp_range
    /\ temp_points' = r.points
    /\ layer_points' = layer_points
    /\ rain_points' = r.rain_points
    /\ chart_drawn' = r.chart_drawn
    /\ canvas' = r.canvas
    /\ cards' = r.cards
    /\ forecast' = r.entries
    /\ raised' = r.raised
    /\ sink_image' = IF r.delivered THEN r.canvas ELSE sink_image
    /\ shown' = r.shown

\* update_display(weather_data) with a current observation, a drawing toolkit
\* and a display that do not fail.
UpdateDisplay ==
    /\ op = "input"
    /\ \E r \in {update_display([data |-> TRUE, current |-> TRUE,
                                  temperature |-> current_temp,
                                  icon |-> icon_name, wind_speed |-> wind_speed,
                                  hourly |-> hourly, daily |-> forecast],
                                 width, asset, "none")} :
         ApplyRender(r)
    /\ op' = "update_display"
    /\ UNCHANGED <<dashVars, hourly, current_temp, width, iconVars, curveVars>>

\* draw_forecast(img, draw, forecast_data) called directly on the daily
\* sequence.
CallDrawForecast ==
    /\ op = "input"
    /\ LET row == draw_forecast(forecast, width, asset)
       IN  /\ cards' = row.cards
           /\ forecast' = row.entries
           /\ canvas' = canvas \o CardOps(Len(row.cards))
           /\ raised' = row.error
    /\ op' = "draw_forecast"
    /\ UNCHANGED <<dashVars, width, sink_image, shown, graphVars, iconVars, curveVars>>

\* Bounds a direct caller hands to draw_graph_section.
TempBounds == {40, 50, 60}

\* draw_graph_section(img, draw, hourly_data, temp_min, temp_max) called
\* directly on the hourly sequence with any bounds.
CallDrawGraphSection ==
    /\ op = "input"
    /\ \E tmin \in TempBounds, tmax \in TempBounds :
         LET chart == draw_graph_section(hourly, tmin, tmax)
         IN  /\ hourly_data' = hourly
             /\ temp_min' = tmin
             /\ temp_max' = tmax
             /\ temp_range' = chart.temp_range
             /\ temp_points' = chart.points
             /\ layer_points' = layer_points
             /\ rain_points' = chart.rain_points
             /\ chart_drawn' = chart.drawn
             /\ canvas' = canvas \o chart.ops
             /\ raised' = chart.error
    /\ op' = "draw_graph_section"
    /\ UNCHANGED <<dashVars, hourly, current_temp, forecast, width, cards, sink_image,
                   shown, iconVars, curveVars>>

\* Values of the modelled hourly points.
TempValues == {40, 47, 50, 60}
RainValues == {0, 35, 100}
HourlyPoints == [time : {15}, temp : TempValues, rain_chance : RainValues]
CurrentTemps == {40, 54}

\* draw_graph_section called directly, with the polygons of its temperature
\* fill kept for inspection.
DrawTempFill ==
    /\ op = "input"
    /\ \E tmin \in TempBounds, tmax \in TempBounds :
         \E chart \in {draw_graph_section(hourly, tmin, tmax)} :
             /\ hourly_data' = hourly
             /\ temp_min' = tmin
             /\ temp_max' = tmax
             /\ temp_range' = chart.temp_range
             /\ temp_points' = chart.points
             /\ rain_points' = chart.rain_points
             /\ chart_drawn' = chart.drawn
             /\ layer_points' = IF chart.drawn THEN TempFillLayers(chart.points) ELSE <<>>
             /\ canvas' = canvas \o chart.ops
             /\ raised' = chart.error
    /\ op' = "temp_fill"
    /\ UNCHANGED <<dashVars, hourly, current_temp, forecast, width, cards, sink_image,
                   shown, iconVars, curveVars>>

\* Canvas widths of the supported displays.
Widths == {600, 640, 800}

DayNames == <<"Mon", "Tue", "Wed", "Thu", "Fri", "Sat", "Sun">>
DayIcons == << <<"0","2","d">>, <<"0","1","n">>, <<"1","0","n">>, <<"0","3","d">> >>

\* A daily forecast of n entries whose first day is DayNames[start].
DailyFrom(start, n) ==
    [i \in 1..n |-> [day_name |-> DayNames[((start + i - 2) % 7) + 1],
                     icon |-> DayIcons[((i - 1) % 4) + 1],
                     min_temp |-> 46 + (i - 1),
                     max_temp |-> 54 + (i - 1)]]

DailyInputs == {DailyFrom(start, n) : start \in 1..7, n \in 0..MaxDaily}

\* The seven daily entries of test_display.
TestDisplayDaily ==
    [i \in 1..7 |-> [day_name |-> DayNames[((5 + i - 2) % 7) + 1],
                     icon |-> <<"0","2","d">>,
                     min_temp |-> 46 + (i - 1),
                     max_temp |-> 54 + (i - 1)]]

\* The eleven hourly points of test_display.
\* the hour of the day test_display runs at (its datetime.now())
TestDisplayHour == 9
rain_chances == <<5, 10, 15, 25, 35, 40, 35, 25, 15, 10, 5>>
TestDisplayHourly ==
    [i \in 1..11 |-> [time |-> (TestDisplayHour + 3 * (i - 1)) % 24,
                      temp |-> 50 + (i - 1), rain_chance |-> rain_chances[i]]]

----------------------------------------------------------------------------
(* Initial states and specifications *)

----------------------------------------------------------------------------
(* Fetcher: get_current_weather, get_forecast, get_weather_data *)

\* round(x) for the float x = num/den, den > 0: the nearest integer, a tie
\* going to the even one.
PyRound(num, den) ==
    LET fl == num \div den
        twice == 2 * (num - fl * den)
    IN  IF twice < den THEN fl
        ELSE IF twice > den THEN fl + 1
        ELSE IF fl % 2 = 0 THEN fl ELSE fl + 1

\* str.title(), for the letters the modelled descriptions start words with
UpperChar(ch) ==
    CASE ch = "c" -> "C"
      [] ch = "s" -> "S"
      [] ch = "l" -> "L"
      [] ch = "r" -> "R"
      [] OTHER -> ch

title(str) ==
    [c \in 1..Len(str) |->
        IF c = 1 \/ str[c - 1] = " " THEN UpperChar(str[c]) ELSE str[c]]

\* A failed request: get_current_weather returns None (a record that is
\* false where Python tests `if current`).
NoCurrent == [ok |-> FALSE]

\* get_current_weather: the fields of the response the dashboard uses.
\* Temperatures arrive with one decimal (tenths here) and are rounded.
get_current_weather(resp) ==
    IF ~resp.ok THEN NoCurrent
    ELSE [ok |-> TRUE,
          temperature |-> PyRound(resp.temp, 10),
          temp_min |-> PyRound(resp.temp_min, 10),
          temp_max |-> PyRound(resp.temp_max, 10),
          humidity |-> resp.humidity,
          wind_speed |-> resp.wind_speed,
          description |-> title(resp.description),
          icon |-> resp.icon]

\* Only take 7 forecast points to leave room for the "Now" point.
HourlyForecastPoints == 7

\* get_forecast(days=10): list(daily_forecasts.items())[:days+1]
ForecastDays == 11

\* date.strftime('%a') of the day numbered d (day 0 is a Monday)
DayName(d) == DayNames[(d % 7) + 1]

\* The dates of the items, each once, in the order of first appearance.
RECURSIVE DatesOf(_)
DatesOf(list) ==
    IF list = <<>> THEN <<>>
    ELSE LET rest == DatesOf(SubSeq(list, 1, Len(list) - 1))
             d == list[Len(list)].date
         IN  IF \E k \in 1..Len(rest) : rest[k] = d THEN rest ELSE Append(rest, d)

ItemsOf(list, d) == SelectSeq(list, LAMBDA item : item.date = d)

RECURSIVE SeqSum(_)
SeqSum(q) == IF q = <<>> THEN 0 ELSE q[1] + SeqSum(Tail(q))

\* max(set(weather_conditions), key=weather_conditions.count); the order of
\* a tie is the set's, so any of the most frequent conditions can come out.
MostCommon(conds) ==
    LET count(c) == Cardinality({k \in 1..Len(conds) : conds[k] = c})
    IN  {c \in {conds[k] : k \in 1..Len(conds)} :
            \A k \in 1..Len(conds) : count(conds[k]) <= count(c)}

\* The daily summary of the items of one date.  The mean wind speed is kept
\* to one decimal: it is in tenths here.
DaySummary(d, items) ==
    LET temps == [k \in 1..Len(items) |-> items[k].temp]
    IN  [date |-> d,
         day_name |-> DayName(d),
         min_temp |-> PyRound(SeqMin(temps), 10),
         max_temp |-> PyRound(SeqMax(temps), 10),
         description |-> title(CHOOSE c \in MostCommon(
                              [k \in 1..Len(items) |-> items[k].description]) : TRUE),
         icon |-> items[1].icon,
         humidity |-> PyRound(SeqSum([k \in 1..Len(items) |-> items[k].humidity]),
                              Len(items)),
         wind_speed |-> PyRound(10 * SeqSum([k \in 1..Len(items) |->
                                                   items[k].wind_speed]),
                                Len(items))]

\* get_forecast: a failed request gives empty lists; otherwise the first
\* HourlyForecastPoints items become hourly points and the items are
\* summarised by date.
get_forecast(resp) ==
    IF ~resp.ok THEN [daily |-> <<>>, hourly |-> <<>>]
    ELSE LET list == resp.list
             dates == Prefix(DatesOf(list), ForecastDays)
         IN  [daily |-> [k \in 1..Len(dates) |->
                            DaySummary(dates[k], ItemsOf(list, dates[k]))],
              hourly |-> [k \in 1..Len(Prefix(list, HourlyForecastPoints)) |->
                            [time |-> list[k].hour,
                             temp |-> PyRound(list[k].temp, 10),
                             icon |-> list[k].icon,
                             rain_chance |-> PyRound(list[k].pop * 100, 100)]]]

\* today_data of get_weather_data
TodayData(current, today_date) ==
    [date |-> today_date,
     day_name |-> DayName(today_date),
     min_temp |-> current.temp_min,
     max_temp |-> current.temp_max,
     description |-> current.description,
     icon |-> current.icon,
     humidity |-> current.humidity,
     wind_speed |-> current.wind_speed]

\* now_data of get_weather_data
NowData(current, hour) ==
    [time |-> hour, temp |-> current.temperature, icon |-> current.icon,
     rain_chance |-> 0]

\* Variant: the today entry is always inserted at the front.
get_weather_data_always_insert(cur_resp, fc_resp, today_date, hour) ==
    LET current == get_current_weather(cur_resp)
        fc == get_forecast(fc_resp)
    IN  [current |-> current,
         daily |-> IF current.ok /\ Len(fc.daily) > 0
                   THEN <<TodayData(current, today_date)>> \o fc.daily
                   ELSE fc.daily,
         hourly |-> IF current.ok /\ Len(fc.hourly) > 0
                    THEN <<NowData(current, hour)>> \o fc.hourly
                    ELSE fc.hourly]

\* Variant: the today entry is made whenever there is a current observation.
get_weather_data_today_unguarded(cur_resp, fc_resp, today_date, hour) ==
    LET current == get_current_weather(cur_resp)
        fc == get_forecast(fc_resp)
    IN  [current |-> current,
         daily |-> IF current.ok
                   THEN IF Len(fc.daily) > 0 /\ fc.daily[1].date = today_date
                        THEN [fc.daily EXCEPT ![1] = TodayData(current, today_date)]
                        ELSE <<TodayData(current, today_date)>> \o fc.daily
                   ELSE fc.daily,
         hourly |-> IF current.ok /\ Len(fc.hourly) > 0
                    THEN <<NowData(current, hour)>> \o fc.hourly
                    ELSE fc.hourly]

\* get_weather_data: with a current observation and a non-empty daily list
\* the today entry replaces the first entry when that is dated today and is
\* inserted in front of it otherwise; with a current observation and a
\* non-empty hourly list the "Now" point is inserted in front.
get_weather_data(cur_resp, fc_resp, today_date, hour) ==
    LET current == get_current_weather(cur_resp)
        fc == get_forecast(fc_resp)
    IN  [current |-> current,
         daily |-> IF current.ok /\ Len(fc.daily) > 0
                   THEN IF fc.daily[1].date = today_date
                        THEN [fc.daily EXCEPT ![1] = TodayData(current, today_date)]
                        ELSE <<TodayData(current, today_date)>> \o fc.daily
                   ELSE fc.daily,
         hourly |-> IF current.ok /\ Len(fc.hourly) > 0
                    THEN <<NowData(current, hour)>> \o fc.hourly
                    ELSE fc.hourly]

\* Responses of the current-weather request: a failure, a partly cloudy
\* afternoon, a clear windy night whose temperatures sit on rounding ties.
CurrentResponses ==
    { [ok |-> FALSE],
      [ok |-> TRUE, temp |-> 543, temp_min |-> 512, temp_max |-> 558,
       humidity |-> 60, wind_speed |-> 5,
       description |-> <<"l","i","g","h","t"," ","r","a","i","n">>,
       icon |-> <<"1", "0", "d">>],
      [ok |-> TRUE, temp |-> 405, temp_min |-> 385, temp_max |-> 415,
       humidity |-> 81, wind_speed |-> 20,
       description |-> <<"c","l","e","a","r"," ","s","k","y">>,
       icon |-> <<"0", "1", "n">>] }

\* The k-th item (from 0) of a forecast list whose first item is for hour
\* first_hour of day first_date: one item every three hours.
ApiItem(k, first_date, first_hour) ==
    LET h == first_hour + 3 * k
    IN  [date |-> first_date + (h \div 24),
         hour |-> h % 24,
         temp |-> 400 + 15 * k,
         pop |-> (35 * k) % 101,
         icon |-> DayIcons[(k % 4) + 1],
         description |-> IF (first_date + (h \div 24)) % 2 = 0
                         THEN <<"c","l","e","a","r"," ","s","k","y">>
                         ELSE <<"l","i","g","h","t"," ","r","a","i","n">>,
         humidity |-> 50 + 3 * k,
         wind_speed |-> 4 + k]

\* The day get_weather_data runs on, and its hour.
Today == 4
NowHour == 14

\* Responses of the forecast request: a failure, and lists of up to MaxItems
\* items that start today or, late at night, tomorrow.
ForecastResponses ==
    { [ok |-> FALSE, list |-> <<>>] } \cup
    { [ok |-> TRUE, list |-> [k \in 1..n |-> ApiItem(k - 1, d, h)]] :
        n \in 0..MaxItems, d \in {Today, Today + 1}, h \in {0, 15, 21} }

----------------------------------------------------------------------------
(* Dashboard: update_weather, run_initial_update, run_scheduler, main *)

\* update_display(None)
NoData == [data |-> FALSE, current |-> FALSE, temperature |-> 0, icon |-> <<>>,
           wind_speed |-> 0, hourly |-> <<>>, daily |-> <<>>]

\* What get_weather_data can do: return a record with a current observation
\* ("ok"), return a record whose current is None ("no_current"), or raise.
FetchOutcomes == {"ok", "no_current", "raise"}

\* Variant: update_weather without its try block.
update_weather_no_try(rec, w, files, flt) ==
    IF rec.outcome = "raise"
    THEN [display |-> [update_display(NoData, w, files, "none")
                          EXCEPT !.entries = rec.daily],
          counted |-> FALSE, escaped |-> "Exception"]
    ELSE IF rec.outcome = "ok"
    THEN [display |-> update_display([data |-> TRUE, current |-> TRUE,
                                      temperature |-> rec.temperature,
                                      icon |-> rec.icon,
                                      wind_speed |-> rec.wind_speed,
                                      hourly |-> rec.hourly, daily |-> rec.daily],
                                     w, files, flt),
          counted |-> TRUE, escaped |-> "none"]
    ELSE [display |-> [update_display(NoData, w, files, "none")
                          EXCEPT !.entries = rec.daily],
          counted |-> FALSE, escaped |-> "none"]

\* Variant: the cycle is counted only when the panel showed the new image.
update_weather_count_shown(rec, w, files, flt) ==
    IF rec.outcome = "raise"
    THEN [display |-> [update_display(NoData, w, files, "none")
                          EXCEPT !.entries = rec.daily],
          counted |-> FALSE, escaped |-> "none"]
    ELSE IF rec.outcome = "ok"
    THEN LET d == update_display([data |-> TRUE, current |-> TRUE,
                                  temperature |-> rec.temperature,
                                  icon |-> rec.icon,
                                  wind_speed |-> rec.wind_speed,
                                  hourly |-> rec.hourly, daily |-> rec.daily],
                                 w, files, flt)
         IN  [display |-> d, counted |-> d.shown, escaped |-> "none"]
    ELSE [display |-> [update_display(NoData, w, files, "none")
                          EXCEPT !.entries = rec.daily],
          counted |-> FALSE, escaped |-> "none"]

\* update_weather for a fetch that ended as rec.outcome: with a current
\* observation the record goes to update_display and the cycle is counted;
\* without one, or when the fetch raised, update_display(None) is called.
\* Nothing leaves update_display (its body is one try block), so nothing
\* leaves update_weather either.
update_weather(rec, w, files, flt) ==
    IF rec.outcome = "raise"
    THEN [display |-> [update_display(NoData, w, files, "none")
                          EXCEPT !.entries = rec.daily],
          counted |-> FALSE, escaped |-> "none"]
    ELSE IF rec.outcome = "ok"
    THEN [display |-> update_display([data |-> TRUE, current |-> TRUE,
                                      temperature |-> rec.temperature,
                                      icon |-> rec.icon,
                                      wind_speed |-> rec.wind_speed,
                                      hourly |-> rec.hourly, daily |-> rec.daily],
                                     w, files, flt),
          counted |-> TRUE, escaped |-> "none"]
    ELSE [display |-> [update_display(NoData, w, files, "none")
                          EXCEPT !.entries = rec.daily],
          counted |-> FALSE, escaped |-> "none"]

\* The records the fetcher hands over in the model: the data of test_display,
\* and a clear windy night whose forecast request failed (empty hourly and
\* daily lists); without a current observation the forecast alone.
FetchResults ==
    { [outcome |-> "ok", temperature |-> 54, icon |-> <<"0", "2", "d">>,
       wind_speed |-> 5, hourly |-> TestDisplayHourly, daily |-> TestDisplayDaily],
      [outcome |-> "ok", temperature |-> 40, icon |-> <<"0", "1", "n">>,
       wind_speed |-> 20, hourly |-> <<>>, daily |-> <<>>],
      [outcome |-> "no_current", temperature |-> 0, icon |-> <<>>,
       wind_speed |-> 0, hourly |-> <<>>, daily |-> DailyFrom(1, 5)],
      [outcome |-> "raise", temperature |-> 0, icon |-> <<>>,
       wind_speed |-> 0, hourly |-> <<>>, daily |-> <<>>] }

\* The jobs schedule.run_pending can find due at one pass, in the order it
\* runs them: none, the interval job, the midnight job, or both.
DueJobs == { <<>>, <<"interval">>, <<"daily">>, <<"interval", "daily">> }

\* Variant: every due job is started at once, each on a thread of its own.
MayStartThreaded(running) == TRUE

\* run_pending and run_initial_update call update_weather in the calling
\* thread: a call starts only when no other is running.
MayStart(running) == running = 0

\* update_weather is entered: get_weather_data runs and ends in one of its
\* outcomes; the step of update_display that will raise, if any, is fixed.
BeginCycle ==
    /\ \E rec \in FetchResults, f \in RenderFaults :
         /\ (rec.outcome /= "ok" => f = "none")
         /\ fetch_outcome' = rec.outcome
         /\ current_temp' = rec.temperature
         /\ icon_name' = rec.icon
         /\ wind_speed' = rec.wind_speed
         /\ hourly' = rec.hourly
         /\ forecast' = rec.daily
         /\ fault' = f
    /\ in_progress' = in_progress + 1
    /\ fetches' = fetches + 1

\* main: dashboard.run_initial_update()
RunInitialUpdate ==
    /\ pc = "main"
    /\ MayStart(in_progress)
    /\ BeginCycle
    /\ pc' = "initial_update"
    /\ scheduled' = scheduled + 1
    /\ UNCHANGED <<op, pending, ticks, update_count, escaped, delivered, panel,
                   last_good, completed, caught,
                   apiVars, test_mode, display_calls, current_cycles, last_update,
                   start_of_day, next_interval, interval_runs,
                   force_day, mapped_icon, icon_path, asset, size, icon_image,
                   hourly_data, temp_min, temp_max, temp_range, temp_points,
                   rain_points, chart_drawn, layer_points,
                   width, canvas, cards, raised, sink_image, shown, curveVars>>

\* main: dashboard.run_initial_update(), with get_weather_data run on the
\* responses of its two requests.
RunInitialUpdateFetched ==
    /\ pc = "main"
    /\ MayStart(in_progress)
    /\ \E wd \in {get_weather_data(api_current, api_forecast, Today, NowHour)} :
         \E f \in RenderFaults :
           /\ (~wd.current.ok => f = "none")
           /\ fetch_outcome' = IF wd.current.ok THEN "ok" ELSE "no_current"
           /\ current_temp' = IF wd.current.ok THEN wd.current.temperature ELSE 0
           /\ icon_name' = IF wd.current.ok THEN wd.current.icon ELSE <<>>
           /\ wind_speed' = IF wd.current.ok THEN wd.current.wind_speed ELSE 0
           /\ hourly' = wd.hourly
           /\ forecast' = wd.daily
           /\ fault' = f
    /\ in_progress' = in_progress + 1
    /\ fetches' = fetches + 1
    /\ pc' = "initial_update"
    /\ scheduled' = scheduled + 1
    /\ UNCHANGED <<op, pending, ticks, update_count, escaped, delivered, panel,
                   last_good, completed, caught,
                   apiVars, test_mode, display_calls, current_cycles, last_update,
                   start_of_day, next_interval, interval_runs,
                   force_day, mapped_icon, icon_path, asset, size, icon_image,
                   hourly_data, temp_min, temp_max, temp_range, temp_points,
                   rain_points, chart_drawn, layer_points,
                   width, canvas, cards, raised, sink_image, shown, curveVars>>

\* One pass of the loop of run_scheduler: time.sleep(60) is over and
\* schedule.run_pending() collects the due jobs.
Tick ==
    /\ pc = "scheduler"
    /\ pending = <<>>
    /\ in_progress = 0
    /\ ticks < MaxTicks
    /\ \E due \in DueJobs :
         /\ pending' = due
         /\ scheduled' = scheduled + Len(due)
    /\ ticks' = ticks + 1
    /\ UNCHANGED <<op, pc, in_progress, fetch_outcome, fault, update_count, escaped,
                   delivered, panel, last_good, completed, caught,
                   apiVars, test_mode, fetches, display_calls, current_cycles, last_update,
                   start_of_day, next_interval, interval_runs,
                   iconVars, curveVars, graphVars, renderVars>>

\* UPDATE_INTERVAL_MINUTES of config.py
UPDATE_INTERVAL_MINUTES == 20

\* Minutes in a day: the period of schedule.every().day.at("00:00")
MinutesPerDay == 1440

\* One pass of the loop of run_scheduler with the clock followed: each pass
\* comes time.sleep(60) after the one before, so ticks counts the minutes
\* since run_scheduler registered its jobs.  The interval job is due when
\* its next_run is reached and is then set UPDATE_INTERVAL_MINUTES ahead;
\* the daily job is due at the pass that falls on 00:00.
TimedTick ==
    /\ pc = "scheduler"
    /\ pending = <<>>
    /\ in_progress = 0
    /\ ticks < MaxMinutes
    /\ ticks' = ticks + 1
    /\ LET interval_due == ticks' >= next_interval
           daily_due == (start_of_day + ticks') % MinutesPerDay = 0
           due == (IF interval_due THEN <<"interval">> ELSE <<>>)
                     \o (IF daily_due THEN <<"daily">> ELSE <<>>)
       IN  /\ pending' = due
           /\ scheduled' = scheduled + Len(due)
           /\ next_interval' = IF interval_due
                               THEN ticks' + UPDATE_INTERVAL_MINUTES
                               ELSE next_interval
           /\ interval_runs' = IF interval_due
                               THEN Append(interval_runs, ticks')
                               ELSE interval_runs
    /\ UNCHANGED <<op, pc, in_progress, fetch_outcome, fault, update_count, escaped,
                   delivered, panel, last_good, completed, caught,
                   apiVars, test_mode, fetches, display_calls, current_cycles, last_update,
                   start_of_day,
                   iconVars, curveVars, graphVars, renderVars>>

\* run_pending runs the next due job: self.update_weather is entered.
StartJob ==
    /\ pc = "scheduler"
    /\ pending /= <<>>
    /\ MayStart(in_progress)
    /\ BeginCycle
    /\ pending' = Tail(pending)
    /\ UNCHANGED <<op, pc, ticks, update_count, escaped, delivered, panel,
                   last_good, scheduled, completed, caught,
                   apiVars, test_mode, display_calls, current_cycles, last_update,
                   start_of_day, next_interval, interval_runs,
                   force_day, mapped_icon, icon_path, asset, size, icon_image,
                   hourly_data, temp_min, temp_max, temp_range, temp_points,
                   rain_points, chart_drawn, layer_points,
                   width, canvas, cards, raised, sink_image, shown, curveVars>>

\* main with --test: dashboard.run_once(), after run_initial_update returned
RunOnce ==
    /\ pc = "test"
    /\ MayStart(in_progress)
    /\ BeginCycle
    /\ pc' = "run_once"
    /\ scheduled' = scheduled + 1
    /\ UNCHANGED <<op, pending, ticks, update_count, escaped, delivered, panel,
                   last_good, completed, caught,
                   apiVars, test_mode, display_calls, current_cycles, last_update,
                   start_of_day, next_interval, interval_runs,
                   force_day, mapped_icon, icon_path, asset, size, icon_image,
                   hourly_data, temp_min, temp_max, temp_range, temp_points,
                   rain_points, chart_drawn, layer_points,
                   width, canvas, cards, raised, sink_image, shown, curveVars>>

\* update_weather runs from the fetch result to its return.  An exception
\* that leaves it ends main: in run_scheduler it is logged by the handler
\* around the loop, which run_scheduler then leaves.
FinishCycle ==
    /\ in_progress > 0
    /\ LET rec == [outcome |-> fetch_outcome, temperature |-> current_temp,
                   icon |-> icon_name, wind_speed |-> wind_speed,
                   hourly |-> hourly, daily |-> forecast]
       IN  \E u \in {update_weather(rec, width, asset, fault)} :
             \E r \in {u.display} :
               /\ ApplyRender(r)
               /\ update_count' = IF u.counted THEN update_count + 1 ELSE update_count
               /\ escaped' = u.escaped
               /\ delivered' = r.delivered
               /\ panel' = IF r.shown THEN r.canvas ELSE panel
               /\ last_good' = IF ~r.early /\ r.raised = "none"
                               THEN r.canvas ELSE last_good
               /\ last_update' = IF u.counted THEN completed + 1 ELSE last_update
               /\ pc' = IF u.escaped /= "none" THEN "exited"
                        ELSE IF pc = "initial_update"
                        THEN (IF test_mode THEN "test" ELSE "scheduler")
                        ELSE IF pc = "run_once" THEN "done"
                        ELSE pc
    /\ in_progress' = in_progress - 1
    /\ completed' = completed + 1
    /\ caught' = IF fetch_outcome = "raise" \/ fault /= "none"
                 THEN caught + 1 ELSE caught
    /\ display_calls' = display_calls + 1
    /\ current_cycles' = IF fetch_outcome = "ok"
                         THEN current_cycles + 1 ELSE current_cycles
    /\ op' = "update_weather"
    /\ UNCHANGED <<pending, ticks, fetch_outcome, fault, scheduled,
                   apiVars, test_mode, fetches, start_of_day, next_interval, interval_runs,
                   hourly, current_temp, width, iconVars, curveVars>>

IconIdle ==
    /\ icon_name = <<>>
    /\ wind_speed = 0
    /\ force_day = FALSE
    /\ mapped_icon = "none"
    /\ icon_path = "none"
    /\ asset = "ok"
    /\ size = 0
    /\ icon_image = NoImage

CurveIdle ==
    /\ points = <<>>
    /\ num_segments = 0
    /\ result = <<>>

GraphIdle ==
    /\ hourly = <<>>
    /\ current_temp = 0
    /\ hourly_data = <<>>
    /\ temp_min = 0
    /\ temp_max = 0
    /\ temp_range = 1
    /\ temp_points = <<>>
    /\ rain_points = <<>>
    /\ chart_drawn = FALSE
    /\ layer_points = <<>>

RenderIdle ==
    /\ forecast = <<>>
    /\ width = 800
    /\ canvas = <<>>
    /\ cards = <<>>
    /\ raised = "none"
    /\ sink_image = <<>>
    /\ shown = FALSE

DashStart ==
    /\ pc = "main"
    /\ pending = <<>>
    /\ in_progress = 0
    /\ ticks = 0
    /\ fetch_outcome = "none"
    /\ fault = "none"
    /\ update_count = 0
    /\ escaped = "none"
    /\ delivered = FALSE
    /\ panel = <<>>
    /\ last_good = <<>>
    /\ scheduled = 0
    /\ completed = 0
    /\ caught = 0
    /\ fetches = 0
    /\ display_calls = 0
    /\ current_cycles = 0
    /\ last_update = 0
    /\ next_interval = UPDATE_INTERVAL_MINUTES
    /\ interval_runs = <<>>

\* Times of day run_scheduler starts at: noon, UPDATE_INTERVAL_MINUTES
\* before midnight, five minutes before midnight.
StartTimes == {720, MinutesPerDay - UPDATE_INTERVAL_MINUTES, MinutesPerDay - 5}

ApiIdle ==
    /\ api_current = [ok |-> FALSE]
    /\ api_forecast = [ok |-> FALSE, list |-> <<>>]

DashIdle ==
    /\ DashStart
    /\ ApiIdle
    /\ test_mode = FALSE
    /\ start_of_day = 720

\* Icon resolver: the inputs are drawn in the initial state, the actions
\* apply get_weather_icon and load_icon to them.
InitIcon ==
    /\ op = "input"
    /\ icon_name \in IconCodes
    /\ wind_speed \in WindSpeeds
    /\ asset \in AssetStates
    /\ force_day = FALSE
    /\ mapped_icon = "none"
    /\ icon_path = "none"
    /\ size = 0
    /\ icon_image = NoImage
    /\ CurveIdle
    /\ GraphIdle
    /\ RenderIdle
    /\ DashIdle

NextIcon == CallGetWeatherIcon \/ CallLoadIcon \/ CallDrawForecastCard
SpecIcon == InitIcon /\ [][NextIcon]_vars

\* Curve smoother: the control points are drawn in the initial state.
InitCurve ==
    /\ op = "input"
    /\ points \in SeqsUpTo(Pixels, MaxPoints)
    /\ num_segments = 0
    /\ result = <<>>
    /\ IconIdle
    /\ GraphIdle
    /\ RenderIdle
    /\ DashIdle

NextCurve ==
    \/ CallBezierCurve
    \/ CallBezierCurveDefault
    \/ CallScreenshotBezierCurveDefault
SpecCurve == InitCurve /\ [][NextCurve]_vars

\* Renderer: the fetcher's hourly and daily sequences, the current
\* temperature, the canvas width and the state of the icon files are drawn in
\* the initial state: every hourly sequence with the forecast of test_display,
\* every daily forecast and width with a few hourly sequences, every state
\* of the icon files with daily forecasts of every length, and every icon
\* code with every state of the icon files and the data of test_display.
\* Elsewhere the current icon and wind speed are those of test_display (02d,
\* 5.99 mph).
InitGraph ==
    /\ op = "input"
    /\ \/ /\ hourly \in SeqsUpTo(HourlyPoints, MaxHourly) \cup {TestDisplayHourly}
          /\ forecast = TestDisplayDaily
          /\ width = 800
          /\ asset = "ok"
          /\ icon_name = <<"0", "2", "d">>
          /\ wind_speed = 5
          /\ current_temp \in CurrentTemps
       \/ /\ hourly \in {<<>>, TestDisplayHourly}
          /\ forecast \in DailyInputs
          /\ width \in Widths
          /\ asset = "ok"
          /\ icon_name = <<"0", "2", "d">>
          /\ wind_speed = 5
          /\ current_temp \in CurrentTemps
       \/ /\ hourly \in {<<>>, TestDisplayHourly}
          /\ forecast \in {DailyFrom(5, n) : n \in 0..MaxDaily}
          /\ width = 800
          /\ asset \in AssetStates
          /\ icon_name = <<"0", "2", "d">>
          /\ wind_speed = 5
          /\ current_temp \in CurrentTemps
       \/ /\ hourly = TestDisplayHourly
          /\ forecast = TestDisplayDaily
          /\ width = 800
          /\ asset \in AssetStates
          /\ icon_name \in IconCodes
          /\ wind_speed \in {5, 20}
          /\ current_temp = 54
    /\ force_day = FALSE
    /\ mapped_icon = "none"
    /\ icon_path = "none"
    /\ size = 0
    /\ icon_image = NoImage
    /\ canvas = <<>>
    /\ cards = <<>>
    /\ raised = "none"
    /\ sink_image = <<>>
    /\ shown = FALSE
    /\ hourly_data = <<>>
    /\ temp_min = 0
    /\ temp_max = 0
    /\ temp_range = 1
    /\ temp_points = <<>>
    /\ rain_points = <<>>
    /\ chart_drawn = FALSE
    /\ layer_points = <<>>
    /\ CurveIdle
    /\ DashIdle

\* Hourly series for the temperature fill (the fill does not read rain_chance).
InitFill ==
    /\ op = "input"
    /\ hourly \in SeqsUpTo([time : {15}, temp : TempValues, rain_chance : {0}], MaxHourly)
    /\ current_temp = 0
    /\ hourly_data = <<>>
    /\ temp_min = 0
    /\ temp_max = 0
    /\ temp_range = 1
    /\ temp_points = <<>>
    /\ rain_points = <<>>
    /\ chart_drawn = FALSE
    /\ layer_points = <<>>
    /\ IconIdle
    /\ CurveIdle
    /\ RenderIdle
    /\ DashIdle

NextFill == DrawTempFill
SpecFill == InitFill /\ [][NextFill]_vars

NextGraph == UpdateDisplay \/ CallDrawGraphSection \/ CallDrawForecast \/ CallLoadIcon
SpecGraph == InitGraph /\ [][NextGraph]_vars

\* Dashboard: main has built the WeatherDashboard (last_update None,
\* update_count 0) and is about to run the initial update; the display has
\* been handed no image yet.  The icon files are present or absent.
InitDash ==
    /\ op = "input"
    /\ DashStart
    /\ test_mode \in BOOLEAN
    /\ start_of_day = 720
    /\ ApiIdle
    /\ asset \in {"ok", "missing"}
    /\ icon_name = <<>>
    /\ wind_speed = 0
    /\ force_day = FALSE
    /\ mapped_icon = "none"
    /\ icon_path = "none"
    /\ size = 0
    /\ icon_image = NoImage
    /\ CurveIdle
    /\ GraphIdle
    /\ RenderIdle

NextDash == RunInitialUpdate \/ RunOnce \/ Tick \/ StartJob \/ FinishCycle
SpecDash == InitDash /\ [][NextDash]_vars

\* Continuous mode with the clock followed.
InitSched ==
    /\ op = "input"
    /\ DashStart
    /\ test_mode = FALSE
    /\ start_of_day \in StartTimes
    /\ ApiIdle
    /\ asset = "ok"
    /\ icon_name = <<>>
    /\ wind_speed = 0
    /\ force_day = FALSE
    /\ mapped_icon = "none"
    /\ icon_path = "none"
    /\ size = 0
    /\ icon_image = NoImage
    /\ CurveIdle
    /\ GraphIdle
    /\ RenderIdle

\* One update cycle from the responses of the two requests to the panel.
InitFetch ==
    /\ op = "input"
    /\ DashStart
    /\ test_mode = FALSE
    /\ start_of_day = 720
    /\ api_current \in CurrentResponses
    /\ api_forecast \in ForecastResponses
    /\ asset = "ok"
    /\ icon_name = <<>>
    /\ wind_speed = 0
    /\ force_day = FALSE
    /\ mapped_icon = "none"
    /\ icon_path = "none"
    /\ size = 0
    /\ icon_image = NoImage
    /\ CurveIdle
    /\ GraphIdle
    /\ RenderIdle

NextFetch == RunInitialUpdateFetched \/ FinishCycle
SpecFetch == InitFetch /\ [][NextFetch]_vars

NextSched == RunInitialUpdate \/ TimedTick \/ StartJob \/ FinishCycle
SpecSched == InitSched /\ [][NextSched]_vars

----------------------------------------------------------------------------
(* Properties of the icon resolver (SpecIcon) *)

\* C1: for every condition code and every wind speed >= 20, get_weather_icon
\* returns "windy", whatever the code's family or day/night suffix.
C1_WindOverride ==
    (op = "get_weather_icon" /\ wind_speed >= 20) => mapped_icon = "windy"

C1_Witness ==
    /\ op = "get_weather_icon"
    /\ icon_name = <<"0","1","n">>
    /\ wind_speed = 20
    /\ mapped_icon = "windy"

\* The icon table of the resolver: for each two-character family the asset for
\* night, for day with wind >= 10 and for day with less wind.
IconTable ==
    (<<"0","1">> :> <<"clear_night", "clear_windy", "clear_day">>) @@
    (<<"0","2">> :> <<"partly_cloudy_night", "partly_cloudy_day", "partly_cloudy_day">>) @@
    (<<"0","3">> :> <<"cloudy", "cloudy_windy", "cloudy">>) @@
    (<<"0","4">> :> <<"cloudy", "cloudy_windy", "cloudy">>) @@
    (<<"0","9">> :> <<"drizzle_night", "drizzle_day", "drizzle_day">>) @@
    (<<"1","0">> :> <<"rain_night", "rain_day", "rain_day">>) @@
    (<<"1","1">> :> <<"thunderstorm", "thunderstorm", "thunderstorm">>) @@
    (<<"1","3">> :> <<"snow_night", "snow_day", "snow_day">>) @@
    (<<"5","0">> :> <<"mist", "mist", "mist">>)

TableIcon(code, wind) ==
    LET family == SubSeq(code, 1, IF Len(code) < 2 THEN Len(code) ELSE 2)
        row == IF family \in DOMAIN IconTable THEN IconTable[family]
               ELSE <<"cloudy", "cloudy", "cloudy">>
    IN  IF Len(code) > 0 /\ code[Len(code)] = "n" THEN row[1]
        ELSE IF wind >= 10 THEN row[2]
        ELSE row[3]

\* C2: for every condition code and every wind speed < 20, get_weather_icon
\* returns the table value selected by the first two characters, the night
\* flag and the wind tier; any other string, the empty one included, gives
\* "cloudy".
C2_DispatchTable ==
    (op = "get_weather_icon" /\ wind_speed < 20)
        => mapped_icon = TableIcon(icon_name, wind_speed)

C2_Witness ==
    /\ op = "get_weather_icon"
    /\ icon_name = <<"0","3","d">>
    /\ wind_speed = 10
    /\ mapped_icon = "cloudy_windy"

\* the code with 'd' in place of its last character
DayForm(code) == Append(SubSeq(code, 1, Len(code) - 1), "d")

----------------------------------------------------------------------------
(* Properties of the curve smoother (SpecCurve) *)

CurveOps == {"bezier_curve", "bezier_curve_default",
             "screenshot_bezier_curve_default"}

\* C4: called with an empty or single-point sequence, bezier_curve returns
\* that input unchanged, for every segment count.
C4_ShortInputUnchanged ==
    (op \in CurveOps /\ Len(points) < 2) => result = points

C4_Witness ==
    /\ op = "bezier_curve"
    /\ Len(points) = 1
    /\ num_segments = 3
    /\ result = points

\* C5: for n >= 2 control points and S >= 1 segments, the output passes
\* through every control point in order: element i*S is control point i for
\* 0 <= i < n-1 (so the first element is the first control point) and the
\* final element is the last control point.
C5_ThroughControlPoints ==
    (op \in CurveOps /\ Len(points) >= 2 /\ num_segments >= 1)
        => /\ Len(result) > (Len(points) - 2) * num_segments
           /\ result[1] = points[1]
           /\ \A i \in 0..(Len(points) - 2) :
                  result[i * num_segments + 1] = points[i + 1]
           /\ result[Len(result)] = points[Len(points)]

C5_Witness ==
    /\ op = "bezier_curve"
    /\ points = << <<0, 40>>, <<13, -7>>, <<40, 0>> >>
    /\ num_segments = 2
    /\ result[3] = <<13, -7>>
    /\ result[Len(result)] = <<40, 0>>

\* C6: for n >= 2 points and S segments the output has (n-1)*S + 1 points.
C6_OutputLength ==
    (op \in CurveOps /\ Len(points) >= 2)
        => Len(result) = (Len(points) - 1) * num_segments + 1

C6_Witness ==
    /\ op = "bezier_curve"
    /\ Len(points) = 3
    /\ num_segments = 3
    /\ Len(result) = 7

\* C7 as stated: called without a segment count, the smoother uses 20 segments
\* per interval, n >= 2 points giving (n-1)*20 + 1 output points.
C7_AsStated ==
    (op \in {"bezier_curve_default", "screenshot_bezier_curve_default"}
       /\ Len(points) >= 2)
        => Len(result) = (Len(points) - 1) * 20 + 1

\* C7 (amended): called without a segment count, bezier_curve of
\* weather_display_pil uses 50 segments per interval ((n-1)*50 + 1 points);
\* the copy in create_screenshot uses 20 ((n-1)*20 + 1 points).
C7_DefaultSegments ==
    /\ (op = "bezier_curve_default" /\ Len(points) >= 2)
          => /\ num_segments = 50
             /\ Len(result) = (Len(points) - 1) * 50 + 1
    /\ (op = "screenshot_bezier_curve_default" /\ Len(points) >= 2)
          => /\ num_segments = 20
             /\ Len(result) = (Len(points) - 1) * 20 + 1

C7_Witness ==
    /\ op = "bezier_curve_default"
    /\ Len(points) = 3
    /\ Len(result) = 101

----------------------------------------------------------------------------
(* Properties of the chart mapping (SpecGraph) *)

BandTop == graph_y
BandBottom == graph_y + graph_height

\* C8: with temp_min < temp_max a sample at temp_min is mapped to the bottom
\* row of the band and one at temp_max to the top row; a precipitation
\* probability of 0 maps to the bottom row and 100 to the top row.
C8_BoundsToBandEdges ==
    (op = "update_display" /\ chart_drawn /\ temp_min < temp_max)
        => \A i \in 1..Len(hourly_data) :
              /\ hourly_data[i].temp = temp_min => temp_points[i][2] = BandBottom
              /\ hourly_data[i].temp = temp_max => temp_points[i][2] = BandTop
              /\ hourly_data[i].rain_chance = 0 => rain_points[i][2] = BandBottom
              /\ hourly_data[i].rain_chance = 100 => rain_points[i][2] = BandTop

C8_Witness ==
    /\ op = "update_display"
    /\ chart_drawn
    /\ temp_min = 40
    /\ temp_max = 60
    /\ hourly_data = << [time |-> NowLabel, temp |-> 60, rain_chance |-> 0],
                        [time |-> <<"3", " ", "p", "m">>, temp |-> 47, rain_chance |-> 35],
                        [time |-> <<"3", " ", "p", "m">>, temp |-> 40, rain_chance |-> 100] >>
    /\ temp_points[1][2] = 257
    /\ temp_points[3][2] = 337
    /\ rain_points[1][2] = 337
    /\ rain_points[3][2] = 257

\* C9: the temperature mapping is monotonic: of two samples of one series the
\* warmer never gets the larger pixel y, and the series 40, 50, 60 maps to
\* strictly decreasing y.
C9_Monotonic ==
    (op = "update_display" /\ chart_drawn)
        => /\ \A i, j \in 1..Len(hourly_data) :
                 hourly_data[i].temp > hourly_data[j].temp
                     => temp_points[i][2] <= temp_points[j][2]
           /\ (/\ Len(hourly_data) = 3
               /\ hourly_data[1].temp = 40
               /\ hourly_data[2].temp = 50
               /\ hourly_data[3].temp = 60)
                 => /\ temp_points[1][2] > temp_points[2][2]
                    /\ temp_points[2][2] > temp_points[3][2]

C9_Witness ==
    /\ op = "update_display"
    /\ chart_drawn
    /\ Len(hourly_data) = 3
    /\ hourly_data[1].temp = 40
    /\ hourly_data[2].temp = 50
    /\ hourly_data[3].temp = 60
    /\ temp_points[1][2] = 337
    /\ temp_points[2][2] = 297
    /\ temp_points[3][2] = 257

\* C10 as stated: when all temperatures are equal the range is 1 and every
\* point of the temperature curve lies at the vertical midpoint of the band.
C10_AsStated ==
    (op = "update_display" /\ chart_drawn /\ temp_min = temp_max)
        => /\ temp_range = 1
           /\ \A i \in 1..Len(temp_points) :
                  2 * temp_points[i][2] = 2 * graph_y + graph_height

\* C10 (amended): when all temperatures are equal the range is 1, the section
\* is drawn to its end and every point of the temperature curve lies on the
\* bottom row of the band, graph_y + graph_height.
C10_FlatSeriesAtBottom ==
    (op = "update_display" /\ Len(hourly_data) >= 2 /\ temp_min = temp_max)
        => /\ chart_drawn
           /\ temp_range = 1
           /\ Len(temp_points) = Len(hourly_data)
           /\ \A i \in 1..Len(temp_points) : temp_points[i][2] = BandBottom

C10_Witness ==
    /\ op = "update_display"
    /\ chart_drawn
    /\ Len(hourly_data) = 3
    /\ temp_min = 50
    /\ temp_max = 50
    /\ \A i \in 1..3 : temp_points[i][2] = 337

\* C11: draw_graph_section never divides by zero, whatever the length of the
\* hourly sequence (0 and 1 included) and whatever temp_min and temp_max are
\* (equal bounds included): called directly or from update_display it raises
\* no ZeroDivisionError, and when it gets past its early return none of its
\* divisors, the temperature range and the divisor of the horizontal step
\* among them, is zero.
C11_NoDivisionByZero ==
    (op \in {"draw_graph_section", "update_display"})
        => /\ raised /= "ZeroDivisionError"
           /\ temp_range /= 0
           /\ Len(hourly_data) >= 2
                 => /\ ~HasZero(GraphDivisors(hourly_data, temp_min, temp_max))
                    /\ chart_drawn

C11_Witness ==
    /\ op = "draw_graph_section"
    /\ Len(hourly_data) = 2
    /\ temp_min = temp_max
    /\ temp_range = 1
    /\ raised = "none"
    /\ chart_drawn
    /\ temp_points[2][1] = graph_x + graph_width

\* The drawing steps of a render cycle around the chart: before it the
\* background, header, current weather and details, after it the cards and
\* the enhancement.
StepsBeforeGraph == <<"background", "header", "current_weather", "details">>
StepsAfterGraph == CardOps(Len(cards)) \o <<"enhance">>

\* C12: with fewer than 2 hourly points (none, or one) draw_graph_section
\* draws nothing, no labels, fill or curve, and raises nothing: a direct call
\* leaves the canvas as it was, and in update_display the canvas holds exactly
\* the other steps of the cycle, which is carried through to set_image and
\* show.
C12_ShortSeriesSkipsChart ==
    /\ (op = "draw_graph_section" /\ Len(hourly_data) < 2)
          => /\ canvas = <<>>
             /\ raised = "none"
             /\ ~chart_drawn
             /\ temp_points = <<>>
             /\ rain_points = <<>>
    /\ (op = "update_display" /\ Len(hourly_data) < 2)
          => /\ canvas = StepsBeforeGraph \o StepsAfterGraph
             /\ raised = "none"
             /\ ~chart_drawn
             /\ temp_points = <<>>
             /\ rain_points = <<>>
             /\ Len(cards) = Min2(Len(forecast), CardCapacity)
             /\ sink_image = canvas
             /\ shown

C12_Witness ==
    /\ op = "update_display"
    /\ Len(hourly_data) = 1
    /\ Len(cards) = 6
    /\ canvas = <<"background", "header", "current_weather", "details",
                  "card", "card", "card", "card", "card", "card", "enhance">>
    /\ sink_image = canvas
    /\ shown

\* C13: whatever the lengths of the fetcher's hourly and daily sequences, the
\* chart is handed at most 8 hourly points, the first ones of the fetcher's
\* sequence, and at most 6 forecast cards are drawn, for the first entries of
\* the daily sequence.
C13_ClippedToCapacity ==
    (op = "update_display")
        => /\ Len(hourly_data) = Min2(Len(hourly), ChartPoints)
           /\ Len(hourly_data) <= 8
           /\ Len(cards) = Min2(Len(forecast), CardCapacity)
           /\ Len(cards) <= 6
           /\ \A i \in 1..Len(hourly_data) :
                 /\ hourly_data[i].temp = hourly[i].temp
                 /\ hourly_data[i].rain_chance = hourly[i].rain_chance

C13_Witness ==
    /\ op = "update_display"
    /\ Len(hourly) = 11
    /\ Len(hourly_data) = 8
    /\ Len(forecast) = 8
    /\ Len(cards) = 6

\* C14: for every number N >= 1 of entries given to draw_forecast, the widths
\* of the drawn cards plus the N - 1 gaps between them plus the left and right
\* margins do not exceed the canvas width; the cards lie side by side one gap
\* apart, and the right edge of the last card is within the canvas.
C14_CardsFitCanvas ==
    (op \in {"draw_forecast", "update_display"} /\ Len(cards) >= 1)
        => LET n == Len(cards)
           IN  /\ \A k \in 1..n : cards[k].width = cards[1].width
               /\ n * cards[1].width + CardGap * (n - 1) + total_spacing <= width
               /\ \A k \in 1..(n - 1) :
                      cards[k + 1].x = cards[k].x + cards[k].width + CardGap
               /\ cards[n].x + cards[n].width <= width

C14_Witness ==
    /\ op = "draw_forecast"
    /\ width = 800
    /\ Len(forecast) = 7
    /\ Len(cards) = 6
    /\ cards[1].width = 111
    /\ cards[6].x = 612

\* C15: for every non-empty daily sequence, drawn directly or in
\* update_display, the first card carries the label "Today" whatever the
\* day_name of the first entry, every other card carries the day_name of its
\* own entry, and the entries of the sequence are the same after the call as
\* before it.
C15_TodayLabel ==
    [][(op' \in {"draw_forecast", "update_display"} /\ Len(forecast) >= 1)
          => /\ Len(cards') = Min2(Len(forecast), CardCapacity)
             /\ cards'[1].day_name = "Today"
             /\ \A k \in 2..Len(cards') : cards'[k].day_name = forecast[k].day_name
             /\ forecast' = forecast]_vars

C15_Witness ==
    /\ op = "draw_forecast"
    /\ Len(forecast) = 3
    /\ forecast[1].day_name = "Wed"
    /\ Len(cards) = 3
    /\ cards[1].day_name = "Today"
    /\ cards[2].day_name = "Thu"
    /\ cards[3].day_name = "Fri"

\* C20: load_icon never raises because of the icon file: for every icon name
\* and size it returns an RGBA image of size x size, the fully transparent
\* placeholder when the file is missing or fails to open or process; the
\* forecast cards and the whole of update_display are then carried through,
\* every card holding the placeholder of the card icon size, and the finished
\* canvas is handed to the display.
C20_PlaceholderIcon ==
    /\ (op = "load_icon")
          => /\ raised = "none"
             /\ icon_image.mode = "RGBA"
             /\ icon_image.size = <<size, size>>
             /\ asset /= "ok" => icon_image.pixels = "transparent"
    /\ (op \in {"draw_forecast", "update_display"})
          => /\ raised = "none"
             /\ Len(cards) = Min2(Len(forecast), CardCapacity)
             /\ \A k \in 1..Len(cards) :
                   /\ cards[k].icon.mode = "RGBA"
                   /\ cards[k].icon.size = <<CardIconSize, CardIconSize>>
                   /\ asset /= "ok" => cards[k].icon.pixels = "transparent"
    /\ (op = "update_display")
          => /\ canvas /= <<>>
             /\ canvas[Len(canvas)] = "enhance"
             /\ sink_image = canvas
             /\ shown

C20_Witness ==
    /\ op = "update_display"
    /\ asset = "unreadable"
    /\ Len(cards) = 6
    /\ cards[6].icon = [mode |-> "RGBA", size |-> <<46, 46>>, pixels |-> "transparent"]
    /\ raised = "none"
    /\ sink_image = canvas
    /\ shown

\* What the claims call an explicit error panel, and a complete image: a
\* canvas on which every drawing step from the background to the enhancement
\* was carried out.
ErrorPanel == <<"error_panel">>
Complete(img) == img /= <<>> /\ img[1] = "background" /\ img[Len(img)] = "enhance"

\* C16 as stated: when the fetcher gives no current observation, the render
\* stage raises nothing and hands a distinct error image to the display in
\* that cycle.
C16_AsStated ==
    (op = "update_weather" /\ in_progress = 0 /\ fetch_outcome = "no_current")
        => /\ raised = "none"
           /\ escaped = "none"
           /\ delivered
           /\ sink_image = ErrorPanel

\* C17 as stated: once a cycle has ended, the image the display holds is the
\* complete image of the most recent render that ended without exception, or
\* an error panel.
C17_AsStated ==
    (completed >= 1 /\ in_progress = 0)
        => \/ Complete(sink_image) /\ sink_image = last_good
           \/ sink_image = ErrorPanel

\* C17, the part the code keeps: the display holds no image until a render
\* has reached set_image, and from then on the complete image of the most
\* recent render that reached it; the image the panel shows is that of the most recent
\* render that ended without exception.  A cycle that fails before set_image
\* leaves its partly drawn canvas undelivered, and no exception leaves the
\* cycle or ends the process.
C17_SinkNeverPartial ==
    /\ sink_image = <<>> \/ Complete(sink_image)
    /\ panel = last_good
    /\ panel /= <<>> => Complete(panel)
    /\ (in_progress = 0 /\ delivered) => sink_image = canvas
    /\ (op = "update_weather" /\ in_progress = 0 /\ ~Complete(canvas)) => ~delivered
    /\ escaped = "none"
    /\ pc /= "exited"

C17_Witness ==
    /\ op = "update_weather"
    /\ in_progress = 0
    /\ raised = "Exception"
    /\ canvas = <<"background", "header", "current_weather">>
    /\ ~delivered
    /\ Complete(sink_image)
    /\ Len(sink_image) = 17
    /\ panel = sink_image

\* C18: an exception raised by the fetcher or in the renderer is caught
\* inside the cycle: none leaves update_weather, main never ends, and every
\* cycle asked for is run: the cycles that have ended, the one running and
\* the due jobs still waiting add up to the cycles asked for, and when the
\* scheduler is at rest all of them have ended.
C18_ExceptionsStayInCycle ==
    /\ escaped = "none"
    /\ pc /= "exited"
    /\ completed + in_progress + Len(pending) = scheduled
    /\ caught <= completed
    /\ (pc = "scheduler" /\ pending = <<>> /\ in_progress = 0) => completed = scheduled

C18_Witness ==
    /\ pc = "scheduler"
    /\ in_progress = 0
    /\ pending = <<>>
    /\ caught = 2
    /\ completed = 3
    /\ fetch_outcome = "ok"
    /\ raised = "none"
    /\ shown

\* C19: at most one update cycle is in progress at any time; when the
\* interval job and the midnight job are due at the same pass the second
\* waits until the first has returned.
C19_OneCycleAtATime ==
    /\ in_progress \in {0, 1}
    /\ (pc = "initial_update") => (in_progress = 1 /\ pending = <<>>)
    /\ (pc = "main") => in_progress = 0

C19_Witness ==
    /\ pc = "scheduler"
    /\ in_progress = 1
    /\ pending = <<"daily">>
    /\ completed = 1

\* The wind variants and the night variants among the asset names.
WindVariants == {"windy", "clear_windy", "cloudy_windy"}
NightVariants == {"clear_night", "partly_cloudy_night", "drizzle_night",
                  "rain_night", "snow_night"}

\* C28: the icon draw_forecast_card resolves for an entry is never a wind
\* variant and never a night variant, whatever the entry's icon code and
\* whatever its own wind speed.
C28_CardIconDayCalm ==
    (op = "draw_forecast_card")
        => /\ icon_path \notin WindVariants
           /\ icon_path \notin NightVariants
           /\ asset = "ok" => icon_image.pixels = icon_path

C28_Witness ==
    /\ op = "draw_forecast_card"
    /\ icon_name = <<"0", "1", "n">>
    /\ wind_speed = 21
    /\ icon_path = "clear_day"

\* The positions at which a drawing step occurs on the canvas.
StepAt(step) == {k \in 1..Len(canvas) : canvas[k] = step}

\* C25: whenever draw_graph_section draws a chart (2 points or more), each
\* of its steps occurs exactly once and in this order: temperature fill,
\* temperature stroke, precipitation fill, precipitation stroke, time labels.
C25_DrawingOrder ==
    (op \in {"draw_graph_section", "update_display"} /\ Len(hourly_data) >= 2)
        => /\ \A step \in {"temp_fill", "temp_stroke", "rain_fill",
                            "rain_stroke", "time_labels"} :
                 Cardinality(StepAt(step)) = 1
           /\ \A a \in StepAt("temp_fill"), b \in StepAt("temp_stroke"),
                 c \in StepAt("rain_fill"), d \in StepAt("rain_stroke"),
                 e \in StepAt("time_labels") :
                 a < b /\ b < c /\ c < d /\ d < e

C25_Witness ==
    /\ op = "update_display"
    /\ Len(hourly_data) = 8
    /\ SubSeq(canvas, 5, 10) = <<"axis_labels", "temp_fill", "temp_stroke",
                                 "rain_fill", "rain_stroke", "time_labels">>

\* C26: when update_display plots the series with the bounds
\* prepare_template_data computed from it, every temperature control point
\* and every precipitation control point has its y inside the band
\* [graph_y, graph_y + graph_height], and the x positions, the same for both
\* series, increase strictly from the left edge of the band to its right
\* edge.
C26_ControlPointsInBand ==
    (op = "update_display" /\ chart_drawn)
        => LET n == Len(temp_points)
           IN  /\ n = Len(hourly_data)
               /\ Len(rain_points) = n
               /\ \A i \in 1..n :
                     /\ BandTop <= temp_points[i][2]
                     /\ temp_points[i][2] <= BandBottom
                     /\ BandTop <= rain_points[i][2]
                     /\ rain_points[i][2] <= BandBottom
                     /\ rain_points[i][1] = temp_points[i][1]
               /\ \A i \in 1..(n - 1) : temp_points[i][1] < temp_points[i + 1][1]
               /\ temp_points[1][1] = graph_x
               /\ temp_points[n][1] = graph_x + graph_width

C26_Witness ==
    /\ op = "update_display"
    /\ chart_drawn
    /\ Len(hourly_data) = 8
    /\ temp_points[1] = <<85, 337>>
    /\ temp_points[8] = <<675, 257>>
    /\ rain_points[6][2] = 305

\* C27, as stated: for a series whose control points lie inside the chart
\* band, every vertex of every layer polygon of the temperature fill has its
\* y between graph_y and graph_y + graph_height.
PointsInBand ==
    \A i \in 1..Len(temp_points) :
        BandTop <= temp_points[i][2] /\ temp_points[i][2] <= BandBottom

C27_AsStated ==
    (op = "temp_fill" /\ chart_drawn /\ PointsInBand)
        => \A l \in 1..Len(layer_points) : \A k \in 1..Len(layer_points[l]) :
               /\ BandTop <= layer_points[l][k][2]
               /\ layer_points[l][k][2] <= BandBottom

\* C29: update_count never decreases and equals the number of cycles whose
\* fetch returned a current observation; the end of such a cycle adds
\* exactly 1 to update_count and sets last_update, whether or not drawing
\* or delivery failed inside update_display; the end of a cycle whose fetch
\* returned no current observation or raised leaves both as they were.
C29_UpdateCount ==
    [][ /\ update_count' >= update_count
        /\ update_count' = current_cycles'
        /\ (completed' = completed + 1 /\ fetch_outcome = "ok")
              => (update_count' = update_count + 1 /\ last_update' = completed')
        /\ (completed' = completed + 1 /\ fetch_outcome /= "ok")
              => (update_count' = update_count /\ last_update' = last_update)
        /\ (completed' = completed)
              => (update_count' = update_count /\ last_update' = last_update) ]_vars

C29_Witness ==
    /\ op = "update_weather"
    /\ in_progress = 0
    /\ fetch_outcome = "ok"
    /\ raised = "Exception"
    /\ ~shown
    /\ completed = 3
    /\ update_count = 2
    /\ last_update = 3

\* C23, as stated: started with --test, main performs exactly one fetch and
\* one call of update_display and then ends, never entering the loop of
\* run_scheduler.
C23_AsStated ==
    /\ (test_mode /\ pc = "done") => (fetches = 1 /\ display_calls = 1)
    /\ test_mode => (pc /= "scheduler" /\ ticks = 0 /\ fetches <= 1)

\* The interval the module docstring and the comment in run_scheduler name.
DocumentedIntervalMinutes == 30

\* C24, as stated: in continuous mode one update runs at start-up, the
\* regular update is due every 30 minutes after run_scheduler started, and
\* one more update is due at every 00:00.
C24_AsStated ==
    /\ (pc = "scheduler") => completed >= 1
    /\ \A i \in 1..Len(interval_runs) :
          interval_runs[i] = DocumentedIntervalMinutes * i
    /\ (pc = "scheduler" /\ ticks >= DocumentedIntervalMinutes)
          => Len(interval_runs) >= 1
    /\ \A k \in 1..Len(pending) :
          pending[k] = "daily" => (start_of_day + ticks) % MinutesPerDay = 0

\* What the two requests gave in the cycle: the current observation, and the
\* forecast before get_weather_data merged the observation into it.
FetchedCurrent == get_current_weather(api_current)
RawForecast == get_forecast(api_forecast)

\* The zeroth daily entry is the today entry made from the observation.
TodayEntryFirst ==
    /\ Len(forecast) >= 1
    /\ forecast[1].date = Today
    /\ forecast[1].day_name = DayName(Today)
    /\ forecast[1].min_temp = FetchedCurrent.temp_min
    /\ forecast[1].max_temp = FetchedCurrent.temp_max
    /\ forecast[1].description = FetchedCurrent.description
    /\ forecast[1].icon = FetchedCurrent.icon
    /\ forecast[1].humidity = FetchedCurrent.humidity
    /\ forecast[1].wind_speed = FetchedCurrent.wind_speed

\* The today entry took the place of the first raw entry, dated today, or
\* stands in front of the raw entries, none of which is dated today.
ReplacedOrInserted ==
    LET raw == RawForecast.daily
    IN  IF Len(raw) > 0 /\ raw[1].date = Today
        THEN /\ Len(forecast) = Len(raw)
             /\ \A k \in 2..Len(raw) : forecast[k] = raw[k]
        ELSE /\ Len(forecast) = Len(raw) + 1
             /\ \A k \in 1..Len(raw) : forecast[k + 1] = raw[k]

\* C21, as stated: whenever a current observation is available, after
\* get_weather_data the zeroth daily entry is the today entry, put in place
\* of a raw first entry dated today or inserted at the front.
C21_AsStated ==
    (pc = "initial_update" /\ FetchedCurrent.ok)
        => (TodayEntryFirst /\ ReplacedOrInserted)

\* C21 (amended): whenever a current observation is available and the raw
\* daily forecast is not empty, after get_weather_data the zeroth daily entry
\* represents today and carries the observation's min/max temperature,
\* description, icon, humidity and wind speed; a raw first entry dated today
\* is replaced in place (length unchanged), otherwise the today entry is
\* inserted at the front (all raw entries shifted by one).
C21_TodayEntry ==
    (pc = "initial_update" /\ FetchedCurrent.ok /\ Len(RawForecast.daily) > 0)
        => (TodayEntryFirst /\ ReplacedOrInserted)

C21_Witness ==
    /\ pc = "initial_update"
    /\ FetchedCurrent.ok
    /\ Len(RawForecast.daily) = 2
    /\ RawForecast.daily[1].date = Today + 1
    /\ Len(forecast) = 3
    /\ forecast[1].min_temp = 38
    /\ forecast[1].max_temp = 42
    /\ forecast[1].description = <<"C","l","e","a","r"," ","S","k","y">>
    /\ forecast[2].date = Today + 1

\* C22: with a current observation and a non-empty hourly forecast, the
\* hourly sequence handed to the renderer starts with a point whose
\* temperature is the observation's and whose rain chance is 0, followed by
\* at most 7 forecast points in the order of the response (at most 8 points
\* in all), and the renderer labels that first point "Now".
C22_NowPoint ==
    (pc \in {"initial_update", "scheduler"} /\ fetches = 1
       /\ FetchedCurrent.ok /\ Len(RawForecast.hourly) > 0)
        => /\ Len(RawForecast.hourly) <= 7
           /\ Len(hourly) = Len(RawForecast.hourly) + 1
           /\ Len(hourly) <= 8
           /\ hourly[1].temp = FetchedCurrent.temperature
           /\ hourly[1].rain_chance = 0
           /\ \A k \in 1..Len(RawForecast.hourly) :
                 /\ hourly[k + 1] = RawForecast.hourly[k]
                 /\ hourly[k + 1].time = api_forecast.list[k].hour
                 /\ hourly[k + 1].rain_chance = api_forecast.list[k].pop
           /\ (op = "update_weather" /\ fault = "none")
                 => /\ Len(hourly_data) = Len(hourly)
                    /\ hourly_data[1].time = NowLabel
                    /\ hourly_data[1].temp = FetchedCurrent.temperature
                    /\ hourly_data[1].rain_chance = 0
                    /\ \A k \in 2..Len(hourly_data) : hourly_data[k].time /= NowLabel

C22_Witness ==
    /\ op = "update_weather"
    /\ fault = "none"
    /\ Len(api_forecast.list) = 9
    /\ Len(hourly) = 8
    /\ hourly[1].temp = 40
    /\ hourly_data[1].time = NowLabel
    /\ hourly_data[2].time = <<"3", " ", "p", "m">>
    /\ hourly_data[8].time = <<"9", " ", "a", "m">>

\* C30: when the current-weather request succeeds and the forecast request
\* fails, the cycle completes and delivers an image: no today entry and no
\* "Now" point are made, the chart bounds are the current temperature, the
\* chart and the forecast cards are skipped without an exception, and the
\* header, the current conditions and the detail panels are drawn.
C30_ForecastFailed ==
    (op = "update_weather" /\ fetches = 1 /\ FetchedCurrent.ok
       /\ ~api_forecast.ok /\ fault = "none")
        => /\ forecast = <<>>
           /\ hourly = <<>>
           /\ hourly_data = <<>>
           /\ temp_min = FetchedCurrent.temperature
           /\ temp_max = FetchedCurrent.temperature
           /\ ~chart_drawn
           /\ cards = <<>>
           /\ raised = "none"
           /\ escaped = "none"
           /\ canvas = <<"background", "header", "current_weather", "details",
                         "enhance">>
           /\ delivered
           /\ shown
           /\ sink_image = canvas
           /\ panel = canvas
           /\ update_count = 1

C30_Witness ==
    /\ op = "update_weather"
    /\ FetchedCurrent.ok
    /\ ~api_forecast.ok
    /\ fault = "none"
    /\ temp_min = 40
    /\ temp_max = 40
    /\ shown
    /\ Len(canvas) = 5

====
